---- MODULE Spec2Model ----
(***************************************************************************)
(* Model of codex-mcp-rs: src/src/codex.rs (run, run_internal,            *)
(* read_line_with_limit, record_parse_error, push_warning,                 *)
(* enforce_required_fields).                                               *)
(*                                                                         *)
(* Strings are sequences of tokens; "\n" is a token of its own, so that    *)
(* format!("{a}\n{b}") is a \o <<"\n">> \o b and len() is Len.             *)
(* Option<String> is a sequence, None being << >> (the code never stores   *)
(* Some("")).                                                              *)
(***************************************************************************)
EXTENDS Integers, Sequences, FiniteSets, TLC

\* ------------------------------------------------------------------ bounds
PipeCap == 1            \* lines an OS pipe holds before a write blocks
MaxChildWrites == 2     \* lines, blank ones apart, the child writes (both streams together)
MaxEvents == 3          \* lines, blank ones apart, the child writes when only stdout is used
MAX_ALL_MESSAGES_SIZE == 3    \* codex.rs:413, scaled
MAX_AGENT_MESSAGES_SIZE == 3  \* codex.rs:412, scaled
MAX_STDERR_SIZE == 3          \* codex.rs:410, scaled
MaxStreamLen == 5       \* bytes in a stream given to read_line_with_limit
MaxLineLen == 3         \* largest max_len given to read_line_with_limit
BufCapacity == 2        \* most bytes one fill_buf call makes available
RequestedTimeout == 5   \* seconds a caller of run asks for
ProbeWidth == 2         \* timeouts tried on each side of 0 and of the ceiling
MaxArgs == 2            \* most extra flags, and most images, of a request

\* -------------------------------------------------------------- the child's lines
\* Lines the child can put on stdout, named by their content.
StdoutLines == {"blank", "long", "bad", "scalar", "sid", "msg", "err", "fail", "failbare"}

\* Lines for the executions that use stdout only. Besides lines of the set
\* above: an agent message that carries a second thread_id and a longer text,
\* one whose text alone is larger than the agent-text cap, an error event with
\* an error object without message and a top-level message, an error event
\* with both messages, a thread_id and an agent text, an event with an empty
\* thread_id and an empty agent text, and an event whose item is of another
\* type.
EventLines ==
    {"blank", "long", "bad", "sid", "msg", "fail",
     "msg2", "msgbig", "errnomsg", "errfull", "empty", "other"}

\* Lines the child can put on stderr, named by their content.
StderrLines == {"e1", "e2"}

\* read_line_with_limit reports the line truncated (codex.rs:475)
IsTruncated(l) == l = "long"

\* the line is empty once "\n" and "\r" are trimmed (codex.rs:491-496)
IsBlank(l) == l = "blank"

\* serde_json::from_str(line) is Ok (codex.rs:504)
ParsesAsJson(l) == l \notin {"bad", "long", "blank"}

\* serde_json::from_value::<HashMap<String, Value>> is Ok (codex.rs:518)
IsObject(l) == l \notin {"blank", "long", "bad", "scalar"}

\* serde_json::to_string(&map).len() (codex.rs:522)
MessageSize(l) ==
    IF l = "msg" THEN 2
    ELSE IF l = "msg2" THEN 3
    ELSE IF l = "msgbig" THEN MAX_AGENT_MESSAGES_SIZE + 2
    ELSE IF l = "errfull" THEN 2
    ELSE 1

\* line_data.get("thread_id").and_then(as_str) is Some (codex.rs:535)
HasThreadId(l) == l \in {"sid", "msg2", "errfull", "empty"}
\* its value, "" when absent
ThreadId(l) ==
    IF l = "sid" THEN "s1"
    ELSE IF l = "msg2" THEN "s2"
    ELSE IF l = "errfull" THEN "s3"
    ELSE ""

\* item.type of the item object, "" when absent (codex.rs:542-543)
ItemType(l) ==
    IF l \in {"msg", "msg2", "msgbig", "errfull", "empty"} THEN "agent_message"
    ELSE IF l = "other" THEN "reasoning"
    ELSE ""
\* item.type == "agent_message" and item.text is a string (codex.rs:542-545)
HasAgentText(l) == ItemType(l) = "agent_message"
\* item.text (codex.rs:545)
AgentText(l) ==
    IF l = "msg" THEN <<"x">>
    ELSE IF l = "msg2" THEN <<"y", "y">>
    ELSE IF l = "msgbig" THEN [i \in 1 .. MAX_AGENT_MESSAGES_SIZE + 1 |-> "z"]
    ELSE IF l = "errfull" THEN <<"w">>
    ELSE IF l = "other" THEN <<"r">>
    ELSE << >>

\* top-level type contains "fail" or "error" (codex.rs:568-569)
IsFailureType(l) == l \in {"err", "fail", "failbare", "errnomsg", "errfull"}

\* line_data.get("error").and_then(as_object) is Some (codex.rs:572)
HasErrorObj(l) == l \in {"err", "errnomsg", "errfull"}
\* error_obj.get("message").and_then(as_str), "" when absent (codex.rs:574)
ErrorObjMessage(l) == IF l = "err" THEN "boom" ELSE IF l = "errfull" THEN "bang" ELSE ""
\* line_data.get("message").and_then(as_str), "" when absent (codex.rs:577)
TopMessage(l) == IF l \in {"fail", "errnomsg", "errfull"} THEN "m" ELSE ""

\* the text of a stderr line after trimming (codex.rs:428-429)
StderrText(e) == IF e = "e1" THEN <<"e">> ELSE <<"e", "e">>

\* ------------------------------------------------------------------ messages
LineTooLongMsg == <<"Output line exceeded byte limit and was truncated, cannot parse JSON.">>
ParseErrorMsg(l) == <<"JSON parse error", l>>
CodexErrorMsg(m) == <<"codex error: ", m>>
ExitCodeMsg == <<"codex command failed with exit code">>
SessionIdMsg == <<"Failed to get SESSION_ID from the codex session.">>
NoAgentMessagesMsg == <<"No agent_messages returned">>
TimedOutMsg(secs) == <<"Codex execution timed out after ", ToString(secs), " seconds">>
AgentsWarningMsg == <<"AGENTS.md warning">>
AgentMarker == <<"\n", "[... Agent messages truncated due to size limit ...]">>
StderrMarker == <<"[... stderr truncated due to size limit ...]">>

\* ------------------------------------------------------------------ deadline
DEFAULT_TIMEOUT_SECS == 600     \* codex.rs:25
MAX_TIMEOUT_SECS == 3600        \* codex.rs:26

\* Option<u64>: None is << >>, Some(t) is <<t>>
\* opts.timeout_secs as callers of run can set it (codex.rs:22)
TimeoutRequests == {<< >>, <<RequestedTimeout>>}
\* timeout_secs of the server configuration (codex.rs:33)
ConfiguredTimeouts == {<< >>, <<0>>}

\* mutant: a configured value above the ceiling is returned as it is
default_timeout_secs_Unclamped(configured) ==
    IF configured # << >> /\ configured[1] > 0
    THEN configured[1]
    ELSE DEFAULT_TIMEOUT_SECS

\* default_timeout_secs (codex.rs:111-121)
default_timeout_secs(configured) ==
    IF configured # << >> /\ configured[1] > 0 /\ configured[1] <= MAX_TIMEOUT_SECS
    THEN configured[1]
    ELSE IF configured # << >> /\ configured[1] > MAX_TIMEOUT_SECS
    THEN MAX_TIMEOUT_SECS
    ELSE DEFAULT_TIMEOUT_SECS

\* the deadline run applies (codex.rs:321-327)
ResolveTimeout(requested, configured) ==
    LET opts_timeout_secs == IF requested = << >>
                             THEN <<default_timeout_secs(configured)>>
                             ELSE requested
    IN IF opts_timeout_secs # << >> THEN opts_timeout_secs[1] ELSE DEFAULT_TIMEOUT_SECS

VARIABLES
    \* the child process and the two pipes
    child,          \* "none" | "running" | "exited"
    exitStatus,     \* "none" | "zero" | "nonzero"
    blocked,        \* <<"none", "">> or <<stream, line>>: the write the child is blocked in
    budget,         \* lines, blank ones apart, the child may still write
    stdoutPipe, stderrPipe,     \* lines in flight
    stdoutOpen, stderrOpen,     \* the child's write ends
    killRequested,  \* SIGKILL sent (start_kill or kill_on_drop)
    emitted,        \* history: the lines, blank ones apart, that entered the stdout pipe
    \* run / run_internal
    pc,             \* "init" | "stdout_loop" | "wait" | "join" | "merge" | "validate" | "returned"
    outcome,        \* "none" | "ok" | "timeout" | "err"
    result,         \* CodexResult
    parse_error_seen,
    all_messages_size,
    status,         \* exit status seen by child.wait()
    stderr_joined,  \* value of stderr_handle.await
    agents_warning, \* Option<String> from read_agents_md
    stdoutExit,     \* how the stdout loop ended: "none" | "eof" | "err"
    failure_event_seen, \* history: a failure/error event was interpreted
    truncated_line_seen, \* history: a truncated stdout line was read
    timeout_secs,   \* the deadline run applies, in seconds
    \* the stderr task
    epc,            \* "none" | "loop" | "done"
    stderr_output,
    etruncated,
    stderrExit,     \* how the stderr loop ended: "none" | "eof" | "err"
    \* read_line_with_limit, byte level
    rd,
    \* the request and the command run_internal builds from it
    cmd,
    \* history: the calls of child.start_kill() the stdout loop has made
    start_kills,
    \* the configuration file, the two OnceLock caches and the calls made
    cfg,
    \* the call of the codex tool and its response
    tool

childVars == <<child, exitStatus, blocked, budget, stdoutPipe, stderrPipe,
               stdoutOpen, stderrOpen, killRequested, emitted>>
parentVars == <<pc, outcome, result, parse_error_seen, all_messages_size, status,
                stderr_joined, agents_warning, timeout_secs, stdoutExit,
                failure_event_seen, truncated_line_seen>>
stderrVars == <<epc, stderr_output, etruncated, stderrExit>>
vars == <<childVars, parentVars, stderrVars, rd, cmd, start_kills, cfg, tool>>

\* mutant: the result starts as a failure
NewResult_StartsFailed ==
    [success |-> FALSE, session_id |-> "", agent_messages |-> << >>,
     agent_messages_truncated |-> FALSE, all_messages |-> << >>,
     all_messages_truncated |-> FALSE, error |-> << >>, warnings |-> << >>]

\* CodexResult as run_internal creates it
NewResult ==
    [success |-> TRUE, session_id |-> "", agent_messages |-> << >>,
     agent_messages_truncated |-> FALSE, all_messages |-> << >>,
     all_messages_truncated |-> FALSE, error |-> << >>, warnings |-> << >>]

NotBlocked == <<"none", "">>

\* ------------------------------------------- configuration and default timeout
\* timeouts a configuration file or a request may hold: around zero, around
\* the ceiling, and the default
TimeoutProbes ==
    (0 .. ProbeWidth)
      \cup ((MAX_TIMEOUT_SECS - ProbeWidth) .. (MAX_TIMEOUT_SECS + ProbeWidth))
      \cup {DEFAULT_TIMEOUT_SECS}

\* Option<u64> over the probes
OptionalTimeouts == {<< >>} \cup {<<t>> : t \in TimeoutProbes}

\* no configuration modelled: the default timeout is drawn at the start
NoConfig == [pc |-> "none"]

\* the process before any call: file is ServerConfig.timeout_secs as the file
\* gives it, loaded is SERVER_CONFIG (codex.rs:97), cached is CACHED_TIMEOUT
\* (codex.rs:112), returned is what the last call of default_timeout_secs
\* returned, first what the first call returned, file_then the file as it
\* was at the last call, requested is Options.timeout_secs of the run
NewConfig(file) ==
    [pc |-> "idle", file |-> file, loaded |-> << >>, cached |-> << >>,
     returned |-> << >>, first |-> << >>, file_then |-> << >>,
     requested |-> << >>]

\* server_config (codex.rs:96-99): the file is loaded on the first call
server_config(c) ==
    IF c.loaded # << >> THEN c ELSE [c EXCEPT !.loaded = <<c.file>>]

\* a call of default_timeout_secs with its two caches (codex.rs:111-121)
CallDefaultTimeoutSecs(c) ==
    LET c1 == IF c.cached # << >> THEN c ELSE server_config(c)
        value == IF c.cached # << >> THEN c.cached[1]
                 ELSE default_timeout_secs(c1.loaded[1])
    IN [c1 EXCEPT !.cached = <<value>>, !.returned = <<value>>,
                  !.first = IF c.first = << >> THEN <<value>> ELSE c.first,
                  !.file_then = c.file]

\* Options (codex.rs:12-23) as run_internal receives them
ExtraFlags == {"--full-auto", "resume"}
ImagePaths == {"a.png", "b.png"}
Prompts == {"p", "--image"}
SessionIds == {<< >>, <<"s1">>, <<"">>}

\* the sequences over S of length at most n
RECURSIVE SeqsOver(_, _)
SeqsOver(S, n) ==
    IF n = 0 THEN {<< >>}
    ELSE LET shorter == SeqsOver(S, n - 1)
         IN shorter \cup {Append(q, x) : q \in {y \in shorter : Len(y) = n - 1}, x \in S}

RequestOptions ==
    [prompt : Prompts, working_dir : {"wd"}, session_id : SessionIds,
     additional_args : SeqsOver(ExtraFlags, MaxArgs),
     image_paths : SeqsOver(ImagePaths, MaxArgs)]

\* no command built: the launch is modelled without its arguments
NoCommand == [pc |-> "none"]

\* Command::new before any argument is added (codex.rs:358)
NewCommand(opts) ==
    [pc |-> "new", opts |-> opts, args |-> << >>, stdin |-> "inherit",
     stdout |-> "inherit", stderr |-> "inherit", kill_on_drop |-> FALSE]

\* repeated --image flags (codex.rs:371-375)
RECURSIVE ImageArgs(_)
ImageArgs(paths) ==
    IF paths = << >> THEN << >>
    ELSE <<"--image", Head(paths)>> \o ImageArgs(Tail(paths))

\* mutant: the resume pair is added after the prompt delimiter
BuildArgs_ResumeAfterDelimiter(opts) ==
    <<"exec", "--cd", opts.working_dir, "--json">>
      \o opts.additional_args
      \o ImageArgs(opts.image_paths)
      \o <<"--">>
      \o (IF opts.session_id # << >> THEN <<"resume", opts.session_id[1]>> ELSE << >>)
      \o <<opts.prompt>>

\* the argument vector (codex.rs:359-383)
BuildArgs(opts) ==
    <<"exec", "--cd", opts.working_dir, "--json">>
      \o opts.additional_args
      \o ImageArgs(opts.image_paths)
      \o (IF opts.session_id # << >> THEN <<"resume", opts.session_id[1]>> ELSE << >>)
      \o <<"--", opts.prompt>>

\* ------------------------------------------------------- the codex tool
\* what the file system holds at a path: a regular file, a directory, or
\* nothing that can be canonicalized
PathKind(path) ==
    IF path \in {"a.png", "b.png"} THEN "file"
    ELSE IF path \in {"wd", "pics"} THEN "dir"
    ELSE "missing"

\* the current directory of the process: "" when current_dir() fails
WorkingDirs == {"wd", "", "gone", "a.png"}
ToolImages == {"a.png", "gone.png", "pics"}

\* CodexArgs (server.rs:43-59) and the current directory
ToolCalls ==
    [prompt : {"", "p"}, images : SeqsOver(ToolImages, MaxArgs),
     session_id : {<< >>, <<"s1">>}, current_dir : WorkingDirs]

\* the codex tool is not modelled: run is called directly
NoTool == [pc |-> "none"]

\* mutant: an image path need only exist
FirstBadImage_AcceptsDirectories(images) ==
    IF \E i \in 1 .. Len(images) : PathKind(images[i]) = "missing"
    THEN "invalid_params" ELSE "ok"

\* the image checks (server.rs:166-193): canonicalize, then is_file
FirstBadImage(images) ==
    IF \E i \in 1 .. Len(images) : PathKind(images[i]) # "file"
    THEN "invalid_params" ELSE "ok"

\* the checks of the codex tool before it builds Options (server.rs:130-193)
ValidateCall(call) ==
    IF call.prompt = "" THEN "invalid_params"
    ELSE IF call.current_dir = "" THEN "invalid_params"
    ELSE IF PathKind(call.current_dir) = "missing" THEN "invalid_params"
    ELSE IF PathKind(call.current_dir) # "dir" THEN "invalid_params"
    ELSE FirstBadImage(call.images)

\* Options as the codex tool builds them (server.rs:198-205)
ToolOptions(call, default_additional_args) ==
    [prompt |-> call.prompt, working_dir |-> call.current_dir,
     session_id |-> call.session_id, additional_args |-> default_additional_args,
     image_paths |-> call.images]

\* ------------------------------------------------------- result accumulation
\* mutant: the parse-error message replaces the error recorded before
record_parse_error_ReplacesError(res, parse_msg) ==
    [res EXCEPT !.success = FALSE, !.error = parse_msg]

\* record_parse_error (codex.rs:639-646)
record_parse_error(res, parse_msg) ==
    [res EXCEPT !.success = FALSE,
                !.error = IF res.error # << >>
                          THEN res.error \o <<"\n">> \o parse_msg
                          ELSE parse_msg]

\* push_warning (codex.rs:648-659)
push_warning(existing, warning) ==
    IF existing # << >> THEN existing \o <<"\n">> \o warning ELSE warning

\* the truncated-line branch (codex.rs:475-481)
RecordTruncatedLine(res) ==
    [res EXCEPT !.success = FALSE, !.error = LineTooLongMsg]

\* mutant: each message is tested against the budget by itself
CollectMessage_PerMessageLimit(acc, l) ==
    IF ~IsObject(l) THEN acc
    ELSE IF MessageSize(l) <= MAX_ALL_MESSAGES_SIZE
    THEN [result |-> [acc.result EXCEPT !.all_messages = Append(@, l)],
          size |-> acc.size + MessageSize(l)]
    ELSE [acc EXCEPT !.result.all_messages_truncated = TRUE]

\* collect all messages with bounds checking (codex.rs:517-532);
\* acc is [result, size]
CollectMessage(acc, l) ==
    IF ~IsObject(l) THEN acc
    ELSE IF acc.size + MessageSize(l) <= MAX_ALL_MESSAGES_SIZE
    THEN [result |-> [acc.result EXCEPT !.all_messages = Append(@, l)],
          size |-> acc.size + MessageSize(l)]
    ELSE [acc EXCEPT !.result.all_messages_truncated = TRUE]

\* mutant: an empty thread_id clears the session id
ExtractThreadId_ClearsOnEmpty(res, l) ==
    IF HasThreadId(l)
    THEN [res EXCEPT !.session_id = ThreadId(l)] ELSE res

\* mutant: the first thread_id is kept
ExtractThreadId_KeepsFirst(res, l) ==
    IF ThreadId(l) # "" /\ res.session_id = ""
    THEN [res EXCEPT !.session_id = ThreadId(l)] ELSE res

\* extract thread_id (codex.rs:534-539)
ExtractThreadId(res, l) ==
    IF HasThreadId(l) /\ ThreadId(l) # ""
    THEN [res EXCEPT !.session_id = ThreadId(l)] ELSE res

\* mutant: a newline is added before every fragment but the first, empty or not
ExtractAgentMessage_AlwaysSeparates(res, l) ==
    IF ~HasAgentText(l) THEN res
    ELSE LET text == AgentText(l)
             new_size == Len(res.agent_messages) + Len(text)
         IN IF new_size > MAX_AGENT_MESSAGES_SIZE
            THEN IF ~res.agent_messages_truncated
                 THEN [res EXCEPT !.agent_messages = @ \o AgentMarker,
                                  !.agent_messages_truncated = TRUE]
                 ELSE res
            ELSE IF ~res.agent_messages_truncated
                 THEN [res EXCEPT !.agent_messages =
                          IF @ # << >>
                          THEN @ \o <<"\n">> \o text ELSE @ \o text]
                 ELSE res

\* mutant: text that fits is appended although the text is already truncated
ExtractAgentMessage_AppendsAfterTruncation(res, l) ==
    IF ~HasAgentText(l) THEN res
    ELSE LET text == AgentText(l)
             new_size == Len(res.agent_messages) + Len(text)
         IN IF new_size > MAX_AGENT_MESSAGES_SIZE
            THEN IF ~res.agent_messages_truncated
                 THEN [res EXCEPT !.agent_messages = @ \o AgentMarker,
                                  !.agent_messages_truncated = TRUE]
                 ELSE res
            ELSE [res EXCEPT !.agent_messages =
                     IF @ # << >> /\ text # << >>
                     THEN @ \o <<"\n">> \o text ELSE @ \o text]

\* extract agent messages with size limits (codex.rs:541-565)
ExtractAgentMessage(res, l) ==
    IF ~HasAgentText(l) THEN res
    ELSE LET text == AgentText(l)
             new_size == Len(res.agent_messages) + Len(text)
         IN IF new_size > MAX_AGENT_MESSAGES_SIZE
            THEN IF ~res.agent_messages_truncated
                 THEN [res EXCEPT !.agent_messages = @ \o AgentMarker,
                                  !.agent_messages_truncated = TRUE]
                 ELSE res
            ELSE IF ~res.agent_messages_truncated
                 THEN [res EXCEPT !.agent_messages =
                          IF @ # << >> /\ text # << >>
                          THEN @ \o <<"\n">> \o text ELSE @ \o text]
                 ELSE res

\* mutant: success is cleared only where a message is found
CheckFailureEvent_FlagWithMessage(res, l) ==
    IF ~IsFailureType(l) THEN res
    ELSE IF HasErrorObj(l)
         THEN IF ErrorObjMessage(l) # ""
              THEN [res EXCEPT !.success = FALSE,
                               !.error = CodexErrorMsg(ErrorObjMessage(l))]
              ELSE res
         ELSE IF TopMessage(l) # ""
              THEN [res EXCEPT !.success = FALSE,
                               !.error = CodexErrorMsg(TopMessage(l))]
              ELSE res

\* check for errors (codex.rs:567-582)
CheckFailureEvent(res, l) ==
    IF ~IsFailureType(l) THEN res
    ELSE LET failed == [res EXCEPT !.success = FALSE]
         IN IF HasErrorObj(l)
            THEN IF ErrorObjMessage(l) # ""
                 THEN [failed EXCEPT !.error = CodexErrorMsg(ErrorObjMessage(l))]
                 ELSE failed
            ELSE IF TopMessage(l) # ""
                 THEN [failed EXCEPT !.error = CodexErrorMsg(TopMessage(l))]
                 ELSE failed

\* mutant: once the result is a failure, events are no longer interpreted
InterpretEvent_StopsAtFailure(acc, l) ==
    IF ~acc.result.success THEN acc
    ELSE LET collected == CollectMessage(acc, l)
         IN [collected EXCEPT !.result =
                 CheckFailureEvent(ExtractAgentMessage(ExtractThreadId(@, l), l), l)]

\* one parsed event folded into the result (codex.rs:517-582)
InterpretEvent(acc, l) ==
    LET collected == CollectMessage(acc, l)
    IN [collected EXCEPT !.result =
            CheckFailureEvent(ExtractAgentMessage(ExtractThreadId(@, l), l), l)]

\* the line reaches the interpretation steps of the loop (codex.rs:475-515)
Interpreted(seen, l) == ~IsTruncated(l) /\ ~IsBlank(l) /\ ~seen /\ ParsesAsJson(l)

\* mutant: every truncated line requests the kill
ProcessStdoutLine_KillsOnEveryTruncatedLine(st, l) ==
    IF IsTruncated(l)
    THEN [st EXCEPT !.result = RecordTruncatedLine(@), !.seen = TRUE,
                    !.kill = TRUE]
    ELSE IF IsBlank(l) THEN st
    ELSE IF st.seen THEN st
    ELSE IF ~ParsesAsJson(l)
    THEN [st EXCEPT !.result = record_parse_error(@, ParseErrorMsg(l)),
                    !.seen = TRUE, !.kill = TRUE]
    ELSE LET acc == InterpretEvent([result |-> st.result, size |-> st.size], l)
         IN [st EXCEPT !.result = acc.result, !.size = acc.size]

\* the body of the stdout loop for one line that was read (codex.rs:469-583);
\* st is [result, size, seen, kill]
ProcessStdoutLine(st, l) ==
    IF IsTruncated(l)
    THEN [st EXCEPT !.result = RecordTruncatedLine(@), !.seen = TRUE,
                    !.kill = ~st.seen]
    ELSE IF IsBlank(l) THEN st
    ELSE IF st.seen THEN st
    ELSE IF ~ParsesAsJson(l)
    THEN [st EXCEPT !.result = record_parse_error(@, ParseErrorMsg(l)),
                    !.seen = TRUE, !.kill = TRUE]
    ELSE LET acc == InterpretEvent([result |-> st.result, size |-> st.size], l)
         IN [st EXCEPT !.result = acc.result, !.size = acc.size]

\* one stderr line folded into the task's buffer (codex.rs:427-447);
\* eb is [out, truncated]
AppendStderrLine(eb, e) ==
    LET line == StderrText(e)
        new_size == Len(eb.out) + Len(line) + 1
    IN IF new_size > MAX_STDERR_SIZE
       THEN IF ~eb.truncated
            THEN [out |-> (IF eb.out # << >> THEN eb.out \o <<"\n">> ELSE eb.out)
                          \o StderrMarker,
                  truncated |-> TRUE]
            ELSE eb
       ELSE IF ~eb.truncated
            THEN [eb EXCEPT !.out = (IF @ # << >> THEN @ \o <<"\n">> ELSE @) \o line]
            ELSE eb

\* mutant: success is assigned from the exit status instead of only cleared
MergeExitStatus_AssignsSuccess(res, st, err_out) ==
    IF st # "zero"
    THEN LET error_msg == IF res.error # << >> THEN res.error ELSE ExitCodeMsg
         IN [res EXCEPT !.success = FALSE,
                        !.error = IF err_out # << >>
                                  THEN error_msg \o <<"\n", "Stderr: ">> \o err_out
                                  ELSE error_msg]
    ELSE [res EXCEPT !.success = TRUE,
                     !.warnings = IF err_out # << >> THEN err_out ELSE @]

\* mutant: output on stderr makes a run that exited zero a failure
MergeExitStatus_StderrIsError(res, st, err_out) ==
    IF st # "zero" \/ err_out # << >>
    THEN LET error_msg == IF res.error # << >> THEN res.error ELSE ExitCodeMsg
         IN [res EXCEPT !.success = FALSE,
                        !.error = IF err_out # << >>
                                  THEN error_msg \o <<"\n", "Stderr: ">> \o err_out
                                  ELSE error_msg]
    ELSE res

\* mutant: the exit-code message replaces the error recorded before
MergeExitStatus_ReplacesError(res, st, err_out) ==
    IF st # "zero"
    THEN [res EXCEPT !.success = FALSE,
                     !.error = IF err_out # << >>
                               THEN ExitCodeMsg \o <<"\n", "Stderr: ">> \o err_out
                               ELSE ExitCodeMsg]
    ELSE IF err_out # << >> THEN [res EXCEPT !.warnings = err_out]
    ELSE res

\* exit status and stderr merged into the result (codex.rs:609-626)
MergeExitStatus(res, st, err_out) ==
    IF st # "zero"
    THEN LET error_msg == IF res.error # << >> THEN res.error ELSE ExitCodeMsg
         IN [res EXCEPT !.success = FALSE,
                        !.error = IF err_out # << >>
                                  THEN error_msg \o <<"\n", "Stderr: ">> \o err_out
                                  ELSE error_msg]
    ELSE IF err_out # << >> THEN [res EXCEPT !.warnings = err_out]
    ELSE res

\* mutant: the AGENTS.md warning is put after the warnings
PrependAgentsWarning_AppendsLast(res, warn) ==
    IF warn # << >>
    THEN [res EXCEPT !.warnings = IF @ # << >> THEN @ \o <<"\n">> \o warn ELSE warn]
    ELSE res

\* AGENTS.md warning put in front of the warnings (codex.rs:628-634)
PrependAgentsWarning(res, warn) ==
    IF warn # << >>
    THEN [res EXCEPT !.warnings = IF @ # << >> THEN warn \o <<"\n">> \o @ ELSE warn]
    ELSE res

\* mutant: the session id is required whether or not an error is recorded
enforce_required_fields_IgnoresError(res, mode) ==
    IF mode = "Skip" THEN res
    ELSE LET checked == IF res.session_id = ""
                        THEN [res EXCEPT !.success = FALSE, !.error = SessionIdMsg]
                        ELSE res
         IN IF checked.agent_messages = << >>
            THEN [checked EXCEPT !.warnings = push_warning(@, NoAgentMessagesMsg)]
            ELSE checked

\* mutant: an empty agent text makes the run a failure
enforce_required_fields_FailsOnNoText(res, mode) ==
    IF mode = "Skip" THEN res
    ELSE LET checked == IF res.session_id = "" /\ res.error = << >>
                        THEN [res EXCEPT !.success = FALSE, !.error = SessionIdMsg]
                        ELSE res
         IN IF checked.agent_messages = << >>
            THEN [checked EXCEPT !.success = FALSE,
                                 !.warnings = push_warning(@, NoAgentMessagesMsg)]
            ELSE checked

\* enforce_required_fields (codex.rs:661-681); mode is "Full" or "Skip"
enforce_required_fields(res, mode) ==
    IF mode = "Skip" THEN res
    ELSE LET checked == IF res.session_id = "" /\ res.error = << >>
                        THEN [res EXCEPT !.success = FALSE, !.error = SessionIdMsg]
                        ELSE res
         IN IF checked.agent_messages = << >>
            THEN [checked EXCEPT !.warnings = push_warning(@, NoAgentMessagesMsg)]
            ELSE checked

\* mutant: the timeout result goes through full validation
TimeoutResult_FullValidation(warn, secs) ==
    enforce_required_fields(
        [success |-> FALSE, session_id |-> "", agent_messages |-> << >>,
         agent_messages_truncated |-> FALSE, all_messages |-> << >>,
         all_messages_truncated |-> FALSE, error |-> TimedOutMsg(secs),
         warnings |-> warn],
        "Full")

\* the result run builds when the deadline elapses (codex.rs:333-347)
TimeoutResult(warn, secs) ==
    enforce_required_fields(
        [success |-> FALSE, session_id |-> "", agent_messages |-> << >>,
         agent_messages_truncated |-> FALSE, all_messages |-> << >>,
         all_messages_truncated |-> FALSE, error |-> TimedOutMsg(secs),
         warnings |-> warn],
        "Skip")


\* ------------------------------------------------------------------- readers
\* the parent still holds the read end of stdout (dropped when run returns)
StdoutReaderOpen == pc \in {"stdout_loop", "wait", "join", "merge", "validate"}
\* the stderr task still holds the read end of stderr (dropped when it ends)
StderrReaderOpen == epc = "loop"

\* mutant: the deadline covers only the join of the stderr task
AtAwaitPoint_JoinOnly == pc = "join"

\* await points of run_internal, where tokio::time::timeout can fire
\* (codex.rs:468, 594-597, 600)
AtAwaitPoint == pc \in {"stdout_loop", "wait", "join"}

\* ------------------------------------------------- read_line_with_limit
\* A reader state: data is the whole byte stream, pos the number of bytes
\* consumed from it, start the value of pos when the current call began;
\* buf, total_read and truncated are the locals of the call, avail the length
\* of the slice fill_buf returned and i the index of the byte being looked at.
Bytes == {"a", "\n"}

RECURSIVE SeqsUpTo(_)
SeqsUpTo(n) ==
    IF n = 0 THEN {<< >>}
    ELSE LET shorter == SeqsUpTo(n - 1)
         IN shorter \cup {Append(q, b) : q \in {x \in shorter : Len(x) = n - 1}, b \in Bytes}

Streams == SeqsUpTo(MaxStreamLen)

ReaderIdle ==
    [pc |-> "idle", data |-> << >>, pos |-> 0, start |-> 0, max_len |-> 1,
     buf |-> << >>, total_read |-> 0, truncated |-> FALSE, avail |-> 0, i |-> 0,
     segments |-> << >>]

\* the caller clears its buffer and calls the reader (codex.rs:421-422, 467-468, 166-167)
BeginCall(r) ==
    [r EXCEPT !.pc = "fill", !.start = r.pos, !.buf = << >>, !.total_read = 0,
              !.truncated = FALSE, !.avail = 0, !.i = 0]

\* lengths of the slice reader.fill_buf() can return: empty only at
\* end-of-stream (codex.rs:171-174)
FillChoices(r) ==
    LET remaining == Len(r.data) - r.pos
    IN IF remaining = 0 THEN {0}
       ELSE 1 .. (IF remaining < BufCapacity THEN remaining ELSE BufCapacity)

\* mutant: the terminator is neither stored nor counted
ScanByte_SkipsTerminator(r, byte) ==
    IF byte = "\n" THEN r
    ELSE IF ~r.truncated /\ Len(r.buf) < r.max_len
    THEN [r EXCEPT !.buf = Append(@, byte), !.total_read = @ + 1]
    ELSE IF ~r.truncated THEN [r EXCEPT !.truncated = TRUE]
    ELSE r

\* mutant: the length test lets one byte too many into the buffer
ScanByte_OffByOne(r, byte) ==
    IF ~r.truncated /\ Len(r.buf) <= r.max_len
    THEN [r EXCEPT !.buf = Append(@, byte), !.total_read = @ + 1]
    ELSE IF ~r.truncated THEN [r EXCEPT !.truncated = TRUE]
    ELSE r

\* one byte of the slice is looked at (codex.rs:178-183)
ScanByte(r, byte) ==
    IF ~r.truncated /\ Len(r.buf) < r.max_len
    THEN [r EXCEPT !.buf = Append(@, byte), !.total_read = @ + 1]
    ELSE IF ~r.truncated THEN [r EXCEPT !.truncated = TRUE]
    ELSE r

\* mutant: the whole slice is consumed at the terminator
ConsumeLine_WholeSlice(r) == [r EXCEPT !.pos = @ + r.avail, !.pc = "ret"]

\* reader.consume(i + 1) at the terminator (codex.rs:185-186)
ConsumeLine(r) == [r EXCEPT !.pos = @ + r.i, !.pc = "ret"]

\* reader.consume(available.len()) when the slice holds no terminator
\* (codex.rs:194-195)
ConsumeSlice(r) == [r EXCEPT !.pos = @ + r.avail, !.pc = "fill"]

\* the byte the call is looking at
CurrentByte(r) == r.data[r.pos + r.i]

\* the bytes of data a call consumed: those after start up to pos
Consumed(r) == SubSeq(r.data, r.start + 1, r.pos)

\* ---------------------------------------------------------------------- Init
\* the state in which run is called: the caller's and the configuration's timeout,
\* and the number of lines the child is going to write
Start(requested, configured, writes) ==
    /\ child = "none" /\ exitStatus = "none" /\ blocked = NotBlocked
    /\ budget = writes
    /\ stdoutPipe = << >> /\ stderrPipe = << >>
    /\ stdoutOpen = FALSE /\ stderrOpen = FALSE /\ killRequested = FALSE
    /\ emitted = << >>
    /\ pc = "init" /\ outcome = "none" /\ result = NewResult
    /\ parse_error_seen = FALSE /\ all_messages_size = 0
    /\ status = "none" /\ stderr_joined = << >>
    /\ agents_warning \in {<< >>, AgentsWarningMsg}
    /\ timeout_secs = ResolveTimeout(requested, configured)
    /\ stdoutExit = "none" /\ failure_event_seen = FALSE /\ truncated_line_seen = FALSE
    /\ epc = "none" /\ stderr_output = << >> /\ etruncated = FALSE
    /\ stderrExit = "none"
    /\ rd = ReaderIdle
    /\ cmd = NoCommand
    /\ start_kills = 0
    /\ cfg = NoConfig
    /\ tool = NoTool

\* run as the codex tool calls it: no timeout in the request (server.rs:204)
Init == \E configured \in ConfiguredTimeouts : Start(<< >>, configured, MaxChildWrites)

\* ------------------------------------------------------------ run_internal
\* cmd.spawn() and the two pipe handles (codex.rs:392-458)
Spawn ==
    /\ pc = "init"
    /\ child' = "running" /\ stdoutOpen' = TRUE /\ stderrOpen' = TRUE
    /\ result' = NewResult
    /\ pc' = "stdout_loop" /\ epc' = "loop"
    /\ UNCHANGED <<exitStatus, blocked, budget, stdoutPipe, stderrPipe,
                   killRequested, emitted, outcome, parse_error_seen, all_messages_size,
                   status, stderr_joined, agents_warning, timeout_secs, stdoutExit, failure_event_seen, truncated_line_seen,
                   stderr_output, etruncated, stderrExit, rd, cmd, start_kills, cfg, tool>>

\* mutant: a failed launch returns the initial result
SpawnFail_ReturnsResult ==
    /\ pc = "init"
    /\ pc' = "returned" /\ outcome' = "ok"
    /\ UNCHANGED <<childVars, result, parse_error_seen, all_messages_size, status,
                   stderr_joined, agents_warning, timeout_secs, stdoutExit, failure_event_seen, truncated_line_seen, stderrVars, rd, cmd, start_kills, cfg, tool>>

\* spawn or pipe acquisition fails: run returns Err (codex.rs:392-396)
SpawnFail ==
    /\ pc = "init"
    /\ pc' = "returned" /\ outcome' = "err"
    /\ UNCHANGED <<childVars, result, parse_error_seen, all_messages_size, status,
                   stderr_joined, agents_warning, timeout_secs, stdoutExit, failure_event_seen, truncated_line_seen, stderrVars, rd, cmd, start_kills, cfg, tool>>

\* the stdout loop reads one line (codex.rs:466-583, Ok branch, bytes_read > 0)
StdoutReadLine ==
    /\ pc = "stdout_loop"
    /\ stdoutPipe # << >>
    /\ LET st == ProcessStdoutLine([result |-> result, size |-> all_messages_size,
                                    seen |-> parse_error_seen, kill |-> FALSE],
                                   Head(stdoutPipe))
       IN /\ result' = st.result
          /\ all_messages_size' = st.size
          /\ parse_error_seen' = st.seen
          /\ killRequested' = (killRequested \/ st.kill)
          /\ start_kills' = start_kills + (IF st.kill THEN 1 ELSE 0)
    /\ failure_event_seen' =
          (failure_event_seen \/ (Interpreted(parse_error_seen, Head(stdoutPipe))
                                   /\ IsFailureType(Head(stdoutPipe))))
    /\ truncated_line_seen' = (truncated_line_seen \/ IsTruncated(Head(stdoutPipe)))
    /\ stdoutPipe' = Tail(stdoutPipe)
    /\ UNCHANGED <<child, exitStatus, blocked, budget, stderrPipe,
                   stdoutOpen, stderrOpen, emitted, pc, outcome, status, stderr_joined,
                   agents_warning, timeout_secs, stdoutExit, stderrVars, rd, cmd, cfg, tool>>

\* the stdout loop sees end-of-stream (codex.rs:470-472)
StdoutReadEof ==
    /\ pc = "stdout_loop"
    /\ stdoutPipe = << >> /\ ~stdoutOpen
    /\ pc' = "wait" /\ stdoutExit' = "eof"
    /\ UNCHANGED <<childVars, outcome, result, parse_error_seen, all_messages_size,
                   status, stderr_joined, agents_warning, timeout_secs, failure_event_seen, truncated_line_seen,
                   stderrVars, rd, cmd, start_kills, cfg, tool>>

\* a read of stdout fails (codex.rs:584-589)
StdoutReadErr ==
    /\ pc = "stdout_loop"
    /\ result' = record_parse_error(result, ParseErrorMsg(""))
    /\ pc' = "wait" /\ stdoutExit' = "err"
    /\ UNCHANGED <<childVars, outcome, parse_error_seen, all_messages_size,
                   status, stderr_joined, agents_warning, timeout_secs, failure_event_seen, truncated_line_seen,
                   stderrVars, rd, cmd, start_kills, cfg, tool>>

\* child.wait() returns the exit status (codex.rs:594-597)
WaitExit ==
    /\ pc = "wait"
    /\ child = "exited"
    /\ status' = exitStatus
    /\ pc' = "join"
    /\ UNCHANGED <<childVars, outcome, result, parse_error_seen, all_messages_size,
                   stderr_joined, agents_warning, timeout_secs, stdoutExit, failure_event_seen, truncated_line_seen, stderrVars, rd, cmd, start_kills, cfg, tool>>

\* child.wait() fails: run returns Err and the child is dropped (codex.rs:597, 389)
WaitFail ==
    /\ pc = "wait"
    /\ pc' = "returned" /\ outcome' = "err"
    /\ killRequested' = TRUE
    /\ UNCHANGED <<child, exitStatus, blocked, budget, stdoutPipe,
                   stderrPipe, stdoutOpen, stderrOpen, emitted, result, parse_error_seen,
                   all_messages_size, status, stderr_joined, agents_warning, timeout_secs,
                   stdoutExit, failure_event_seen, truncated_line_seen, stderrVars, rd, cmd, start_kills, cfg, tool>>

\* mutant: the stderr task is not awaited, the buffer is taken as it is
JoinStderr_WithoutWaiting ==
    /\ pc = "join"
    /\ stderr_joined' = stderr_output
    /\ pc' = "merge"
    /\ UNCHANGED <<childVars, outcome, result, parse_error_seen, all_messages_size,
                   status, agents_warning, timeout_secs, stdoutExit, failure_event_seen, truncated_line_seen, stderrVars, rd, cmd, start_kills, cfg, tool>>

\* stderr_handle.await (codex.rs:600-607)
JoinStderr ==
    /\ pc = "join"
    /\ epc = "done"
    /\ stderr_joined' = stderr_output
    /\ pc' = "merge"
    /\ UNCHANGED <<childVars, outcome, result, parse_error_seen, all_messages_size,
                   status, agents_warning, timeout_secs, stdoutExit, failure_event_seen, truncated_line_seen, stderrVars, rd, cmd, start_kills, cfg, tool>>

\* exit status, stderr and AGENTS.md warning merged (codex.rs:609-634)
Merge ==
    /\ pc = "merge"
    /\ result' = PrependAgentsWarning(MergeExitStatus(result, status, stderr_joined),
                                      agents_warning)
    /\ pc' = "validate"
    /\ UNCHANGED <<childVars, outcome, parse_error_seen, all_messages_size, status,
                   stderr_joined, agents_warning, timeout_secs, stdoutExit, failure_event_seen, truncated_line_seen, stderrVars, rd, cmd, start_kills, cfg, tool>>

\* enforce_required_fields(result, Full) and return (codex.rs:636, 330)
Validate ==
    /\ pc = "validate"
    /\ result' = enforce_required_fields(result, "Full")
    /\ pc' = "returned" /\ outcome' = "ok"
    /\ UNCHANGED <<childVars, parse_error_seen, all_messages_size, status,
                   stderr_joined, agents_warning, timeout_secs, stdoutExit, failure_event_seen, truncated_line_seen, stderrVars, rd, cmd, start_kills, cfg, tool>>

\* mutant: the child is not killed when run_internal is dropped
Timeout_WithoutKill ==
    /\ AtAwaitPoint
    /\ result' = TimeoutResult(agents_warning, timeout_secs)
    /\ pc' = "returned" /\ outcome' = "timeout"
    /\ parse_error_seen' = FALSE /\ all_messages_size' = 0
    /\ status' = "none" /\ stderr_joined' = << >> /\ stdoutExit' = "none"
    /\ failure_event_seen' = FALSE
    /\ UNCHANGED <<childVars, agents_warning, timeout_secs, truncated_line_seen,
                   stderrVars, rd, cmd, start_kills, cfg, tool>>

\* the deadline elapses: run_internal is dropped, kill_on_drop kills the child,
\* run returns the timeout result (codex.rs:329-348, 389)
Timeout ==
    /\ AtAwaitPoint
    /\ result' = TimeoutResult(agents_warning, timeout_secs)
    /\ pc' = "returned" /\ outcome' = "timeout"
    /\ killRequested' = TRUE
    /\ parse_error_seen' = FALSE /\ all_messages_size' = 0
    /\ status' = "none" /\ stderr_joined' = << >> /\ stdoutExit' = "none"
    /\ failure_event_seen' = FALSE
    /\ UNCHANGED <<child, exitStatus, blocked, budget, stdoutPipe,
                   stderrPipe, stdoutOpen, stderrOpen, emitted, agents_warning, timeout_secs,
                   truncated_line_seen,
                   stderrVars, rd, cmd, start_kills, cfg, tool>>

\* ------------------------------------------------------------ the stderr task
\* the stderr task reads one line (codex.rs:420-447)
StderrReadLine ==
    /\ epc = "loop"
    /\ stderrPipe # << >>
    /\ LET eb == AppendStderrLine([out |-> stderr_output, truncated |-> etruncated],
                                  Head(stderrPipe))
       IN /\ stderr_output' = eb.out
          /\ etruncated' = eb.truncated
    /\ stderrPipe' = Tail(stderrPipe)
    /\ UNCHANGED <<child, exitStatus, blocked, budget, stdoutPipe,
                   stdoutOpen, stderrOpen, killRequested, emitted, parentVars, epc,
                   stderrExit, rd, cmd, start_kills, cfg, tool>>

\* the stderr task sees end-of-stream and ends (codex.rs:424-426, 457)
StderrReadEof ==
    /\ epc = "loop"
    /\ stderrPipe = << >> /\ ~stderrOpen
    /\ epc' = "done" /\ stderrExit' = "eof"
    /\ UNCHANGED <<childVars, parentVars, stderr_output, etruncated, rd, cmd, start_kills, cfg, tool>>

\* a read of stderr fails and the task ends (codex.rs:449-453, 457)
StderrReadErr ==
    /\ epc = "loop"
    /\ epc' = "done" /\ stderrExit' = "err"
    /\ UNCHANGED <<childVars, parentVars, stderr_output, etruncated, rd, cmd, start_kills, cfg, tool>>

\* ------------------------------------------------------------------ the child
CanWrite == child = "running" /\ blocked = NotBlocked

\* the child writes a line to stdout; the write blocks while the pipe is full
\* and fails (the line is lost) once the read end is closed. Blank lines leave
\* no trace in the result, so the child may write them without end.
WriteStdout(l) ==
    /\ CanWrite /\ stdoutOpen
    /\ IsBlank(l) \/ budget > 0
    /\ budget' = IF IsBlank(l) THEN budget ELSE budget - 1
    /\ IF ~StdoutReaderOpen THEN UNCHANGED <<stdoutPipe, blocked>>
       ELSE IF Len(stdoutPipe) < PipeCap
       THEN stdoutPipe' = Append(stdoutPipe, l) /\ UNCHANGED blocked
       ELSE blocked' = <<"out", l>> /\ UNCHANGED stdoutPipe
    /\ UNCHANGED <<child, exitStatus, stderrPipe, stdoutOpen, stderrOpen,
                   killRequested, parentVars, stderrVars, rd, cmd, start_kills, cfg, tool>>

\* a write to stdout, the history of the lines written left alone
ChildWriteStdout(l) == WriteStdout(l) /\ UNCHANGED emitted

\* the line that entered the stdout pipe in this step, if there is one and it
\* is not blank, is added to the history of the lines written
RecordWritten ==
    emitted' = IF /\ Len(stdoutPipe') > Len(stdoutPipe)
                  /\ ~IsBlank(stdoutPipe'[Len(stdoutPipe')])
               THEN Append(emitted, stdoutPipe'[Len(stdoutPipe')])
               ELSE emitted

\* a write to stdout, recorded in the history once the line is in the pipe
ChildEmitStdout(l) == WriteStdout(l) /\ RecordWritten

\* the child writes a line to stderr
WriteStderr(e) ==
    /\ CanWrite /\ stderrOpen
    /\ budget > 0
    /\ budget' = budget - 1
    /\ IF ~StderrReaderOpen THEN UNCHANGED <<stderrPipe, blocked>>
       ELSE IF Len(stderrPipe) < PipeCap
       THEN stderrPipe' = Append(stderrPipe, e) /\ UNCHANGED blocked
       ELSE blocked' = <<"err", e>> /\ UNCHANGED stderrPipe
    /\ UNCHANGED <<child, exitStatus, stdoutPipe, stdoutOpen, stderrOpen,
                   killRequested, parentVars, stderrVars, rd, cmd, start_kills, cfg, tool>>

\* a write to stderr, the history of the lines written left alone
ChildWriteStderr(e) == WriteStderr(e) /\ UNCHANGED emitted

\* the line that entered either pipe in this step, if there is one and it is
\* not blank, is added to one history of the lines written to both streams
RecordWrittenAny ==
    emitted' = IF /\ Len(stdoutPipe') > Len(stdoutPipe)
                  /\ ~IsBlank(stdoutPipe'[Len(stdoutPipe')])
               THEN Append(emitted, stdoutPipe'[Len(stdoutPipe')])
               ELSE IF Len(stderrPipe') > Len(stderrPipe)
               THEN Append(emitted, stderrPipe'[Len(stderrPipe')])
               ELSE emitted

\* a blocked write completes once the pipe has room or its read end is closed
Unblock ==
    /\ child = "running" /\ blocked # NotBlocked
    /\ IF blocked[1] = "out"
       THEN /\ ~StdoutReaderOpen \/ Len(stdoutPipe) < PipeCap
            /\ stdoutPipe' = IF StdoutReaderOpen THEN Append(stdoutPipe, blocked[2])
                             ELSE stdoutPipe
            /\ UNCHANGED stderrPipe
       ELSE /\ ~StderrReaderOpen \/ Len(stderrPipe) < PipeCap
            /\ stderrPipe' = IF StderrReaderOpen THEN Append(stderrPipe, blocked[2])
                             ELSE stderrPipe
            /\ UNCHANGED stdoutPipe
    /\ blocked' = NotBlocked
    /\ UNCHANGED <<child, exitStatus, budget, stdoutOpen, stderrOpen,
                   killRequested, parentVars, stderrVars, rd, cmd, start_kills, cfg, tool>>

\* a blocked write completes, the history of the lines written left alone
ChildUnblock == Unblock /\ UNCHANGED emitted

\* a blocked write completes and is recorded in the history
ChildEmitUnblock == Unblock /\ RecordWritten

\* the child closes one of its streams without exiting
ChildClose(stream) ==
    /\ child = "running" /\ blocked = NotBlocked
    /\ IF stream = "out"
       THEN stdoutOpen /\ stdoutOpen' = FALSE /\ UNCHANGED stderrOpen
       ELSE stderrOpen /\ stderrOpen' = FALSE /\ UNCHANGED stdoutOpen
    /\ UNCHANGED <<child, exitStatus, blocked, budget, stdoutPipe,
                   stderrPipe, killRequested, emitted, parentVars, stderrVars, rd, cmd, start_kills, cfg, tool>>

\* the child exits by itself with the given status; its write ends close
ChildExit(code) ==
    /\ child = "running" /\ blocked = NotBlocked
    /\ child' = "exited" /\ exitStatus' = code
    /\ stdoutOpen' = FALSE /\ stderrOpen' = FALSE
    /\ UNCHANGED <<blocked, budget, stdoutPipe, stderrPipe, killRequested,
                   emitted, parentVars, stderrVars, rd, cmd, start_kills, cfg, tool>>

\* SIGKILL takes effect: the child dies wherever it is
ChildKilled ==
    /\ child = "running" /\ killRequested
    /\ child' = "exited" /\ exitStatus' = "nonzero"
    /\ stdoutOpen' = FALSE /\ stderrOpen' = FALSE
    /\ blocked' = NotBlocked
    /\ UNCHANGED <<budget, stdoutPipe, stderrPipe, killRequested, emitted,
                   parentVars, stderrVars, rd, cmd, start_kills, cfg, tool>>

ChildStep ==
    \/ \E l \in StdoutLines : ChildWriteStdout(l)
    \/ \E e \in StderrLines : ChildWriteStderr(e)
    \/ ChildUnblock
    \/ \E stream \in {"out", "err"} : ChildClose(stream)
    \/ \E code \in {"zero", "nonzero"} : ChildExit(code)
    \/ ChildKilled

ParentStep ==
    \/ Spawn
    \/ StdoutReadLine
    \/ StdoutReadEof
    \/ WaitExit
    \/ JoinStderr
    \/ Merge
    \/ Validate

StderrStep ==
    \/ StderrReadLine
    \/ StderrReadEof

Next ==
    \/ ParentStep
    \/ StderrStep
    \/ ChildStep
    \/ SpawnFail
    \/ StdoutReadErr
    \/ StderrReadErr
    \/ WaitFail
    \/ Timeout

Spec == Init /\ [][Next]_vars

\* The deadline is a tokio timer and run_internal a tokio future: the timer
\* fires once its time has come, and a future that can make a step is polled.
SpecDeadline == Spec /\ WF_vars(Timeout) /\ WF_vars(ParentStep)

\* An execution whose deadline is too far away to fire, with a child that is
\* scheduled by the OS and exits after a finite output, and with the two
\* drain loops scheduled by tokio.
NextNoDeadline ==
    \/ ParentStep
    \/ StderrStep
    \/ ChildStep
    \/ SpawnFail
    \/ StdoutReadErr
    \/ StderrReadErr
    \/ WaitFail

SpecNoDeadline ==
    /\ Init /\ [][NextNoDeadline]_vars
    /\ WF_vars(ParentStep) /\ WF_vars(StderrStep)
    /\ WF_vars(ChildUnblock) /\ WF_vars(ChildKilled)
    /\ SF_vars(\E code \in {"zero", "nonzero"} : ChildExit(code))

\* The kernel delivers a SIGKILL that was sent: a child that is to be killed
\* does not run forever.
SpecKill == Spec /\ WF_vars(ChildKilled)

\* The stderr task is a task of its own (tokio::spawn, codex.rs:414): dropping
\* its handle detaches it, and the runtime keeps polling it while it can read.
SpecDrain == Spec /\ WF_vars(ChildKilled) /\ WF_vars(StderrStep)

\* run as any caller can call it: with or without a timeout in the request
\* (codex.rs:22, 311)
InitAnyTimeout ==
    \E requested \in TimeoutRequests, configured \in ConfiguredTimeouts :
        Start(requested, configured, MaxChildWrites)

SpecAnyTimeout == InitAnyTimeout /\ [][Next]_vars

\* An execution in which the child uses stdout only, writes up to MaxEvents
\* lines, every read succeeds and the deadline is far away: the event loop
\* folds a longer sequence of events, and the lines written are recorded.
InitEventLoop == Start(<< >>, << >>, MaxEvents)

NextEventLoop ==
    \/ ParentStep
    \/ StderrReadEof
    \/ \E l \in EventLines : ChildEmitStdout(l)
    \/ ChildEmitUnblock
    \/ \E code \in {"zero", "nonzero"} : ChildExit(code)
    \/ ChildKilled

EventLoopSpec == InitEventLoop /\ [][NextEventLoop]_vars

\* An execution that is not cut short: the child writes to both streams and
\* exits or is killed, the two drain loops and the wait run in any order, no
\* read fails and the deadline does not fire. What enters either pipe is
\* recorded in emitted.
ScheduleLines == StdoutLines \ {"blank"}

InitSchedule == Start(<< >>, << >>, MaxChildWrites)

NextSchedule ==
    \/ ParentStep
    \/ StderrStep
    \/ \E l \in ScheduleLines : WriteStdout(l) /\ RecordWrittenAny
    \/ \E e \in StderrLines : WriteStderr(e) /\ RecordWrittenAny
    \/ Unblock /\ RecordWrittenAny
    \/ \E stream \in {"out", "err"} : ChildClose(stream)
    \/ \E code \in {"zero", "nonzero"} : ChildExit(code)
    \/ ChildKilled

ScheduleSpec == InitSchedule /\ [][NextSchedule]_vars


\* ----------------------------------------- read_line_with_limit, step by step
\* a drain loop calls the reader again (codex.rs:420-422, 466-468)
RdCall ==
    /\ rd.pc = "idle"
    /\ rd' = BeginCall(rd)
    /\ UNCHANGED <<childVars, parentVars, stderrVars, cmd, start_kills, cfg, tool>>

\* reader.fill_buf() (codex.rs:171-174)
RdFillBuf ==
    /\ rd.pc = "fill"
    /\ \E k \in FillChoices(rd) :
          rd' = IF k = 0 THEN [rd EXCEPT !.pc = "ret"]
                ELSE [rd EXCEPT !.avail = k, !.i = 1, !.pc = "byte"]
    /\ UNCHANGED <<childVars, parentVars, stderrVars, cmd, start_kills, cfg, tool>>

\* one iteration of the for loop over the slice (codex.rs:177-195)
RdByte ==
    /\ rd.pc = "byte"
    /\ LET scanned == ScanByte(rd, CurrentByte(rd))
       IN rd' = IF CurrentByte(rd) = "\n" THEN ConsumeLine(scanned)
                ELSE IF rd.i = rd.avail THEN ConsumeSlice(scanned)
                ELSE [scanned EXCEPT !.i = @ + 1]
    /\ UNCHANGED <<childVars, parentVars, stderrVars, cmd, start_kills, cfg, tool>>

\* the call returns ReadLineResult; the drain loop stops on bytes_read = 0
\* (codex.rs:187-190, 198-201, 424-426, 470-472)
RdReturn ==
    /\ rd.pc = "ret"
    /\ rd' = [rd EXCEPT !.pc = IF rd.total_read = 0 THEN "done" ELSE "idle",
                        !.segments = Append(@, Consumed(rd))]
    /\ UNCHANGED <<childVars, parentVars, stderrVars, cmd, start_kills, cfg, tool>>

InitReader ==
    /\ child = "none" /\ exitStatus = "none" /\ blocked = NotBlocked
    /\ budget = 0
    /\ stdoutPipe = << >> /\ stderrPipe = << >>
    /\ stdoutOpen = FALSE /\ stderrOpen = FALSE /\ killRequested = FALSE
    /\ emitted = << >>
    /\ pc = "init" /\ outcome = "none" /\ result = NewResult
    /\ parse_error_seen = FALSE /\ all_messages_size = 0
    /\ status = "none" /\ stderr_joined = << >>
    /\ agents_warning = << >>
    /\ timeout_secs = DEFAULT_TIMEOUT_SECS
    /\ stdoutExit = "none" /\ failure_event_seen = FALSE /\ truncated_line_seen = FALSE
    /\ epc = "none" /\ stderr_output = << >> /\ etruncated = FALSE
    /\ stderrExit = "none"
    /\ \E data \in Streams, max_len \in 1 .. MaxLineLen :
          rd = [ReaderIdle EXCEPT !.data = data, !.max_len = max_len]
    /\ cmd = NoCommand
    /\ start_kills = 0
    /\ cfg = NoConfig
    /\ tool = NoTool

NextReader ==
    \/ RdCall
    \/ RdFillBuf
    \/ RdByte
    \/ RdReturn

ReaderSpec == InitReader /\ [][NextReader]_vars


\* ------------------------------------------------- the command, on its own
\* run_internal builds and configures the command (codex.rs:355-389)
BuildCommand ==
    /\ cmd.pc = "new"
    /\ cmd' = [cmd EXCEPT !.pc = "built", !.args = BuildArgs(cmd.opts),
                          !.stdin = "null", !.stdout = "piped", !.stderr = "piped",
                          !.kill_on_drop = TRUE]
    /\ UNCHANGED <<childVars, parentVars, stderrVars, rd, start_kills, cfg, tool>>

InitArgs ==
    /\ child = "none" /\ exitStatus = "none" /\ blocked = NotBlocked
    /\ budget = 0
    /\ stdoutPipe = << >> /\ stderrPipe = << >>
    /\ stdoutOpen = FALSE /\ stderrOpen = FALSE /\ killRequested = FALSE
    /\ emitted = << >>
    /\ pc = "init" /\ outcome = "none" /\ result = NewResult
    /\ parse_error_seen = FALSE /\ all_messages_size = 0
    /\ status = "none" /\ stderr_joined = << >>
    /\ agents_warning = << >>
    /\ timeout_secs = DEFAULT_TIMEOUT_SECS
    /\ stdoutExit = "none" /\ failure_event_seen = FALSE /\ truncated_line_seen = FALSE
    /\ epc = "none" /\ stderr_output = << >> /\ etruncated = FALSE
    /\ stderrExit = "none"
    /\ rd = ReaderIdle
    /\ \E opts \in RequestOptions : cmd = NewCommand(opts)
    /\ start_kills = 0
    /\ cfg = NoConfig
    /\ tool = NoTool

NextArgs == BuildCommand

ArgsSpec == InitArgs /\ [][NextArgs]_vars


\* ------------------------------------------------- the deadline, on its own
\* the configuration file is rewritten while the process runs
ConfigFileChanges ==
    /\ cfg.pc = "idle"
    /\ \E file \in OptionalTimeouts : cfg' = [cfg EXCEPT !.file = file]
    /\ cfg'.file # cfg.file
    /\ UNCHANGED <<childVars, parentVars, stderrVars, rd, cmd, start_kills, tool>>

\* some caller asks for the default timeout (codex.rs:110)
DefaultTimeoutCalled ==
    /\ cfg.pc = "idle"
    /\ cfg' = CallDefaultTimeoutSecs(cfg)
    /\ UNCHANGED <<childVars, parentVars, stderrVars, rd, cmd, start_kills, tool>>

\* run derives its deadline from the request (codex.rs:321-327)
RunAppliesDeadline ==
    /\ cfg.pc = "idle"
    /\ \E requested \in OptionalTimeouts :
          LET called == IF requested = << >> THEN CallDefaultTimeoutSecs(cfg) ELSE cfg
              opts_timeout_secs == IF requested = << >> THEN called.returned
                                   ELSE requested
          IN /\ cfg' = [called EXCEPT !.pc = "applied", !.requested = requested]
             /\ timeout_secs' = IF opts_timeout_secs # << >> THEN opts_timeout_secs[1]
                                ELSE DEFAULT_TIMEOUT_SECS
    /\ UNCHANGED <<childVars, pc, outcome, result, parse_error_seen,
                   all_messages_size, status, stderr_joined, agents_warning,
                   stdoutExit, failure_event_seen, truncated_line_seen,
                   stderrVars, rd, cmd, start_kills, tool>>

\* the run is over and the process is ready for the next call
RunEnds ==
    /\ cfg.pc = "applied"
    /\ cfg' = [cfg EXCEPT !.pc = "idle", !.requested = << >>]
    /\ UNCHANGED <<childVars, parentVars, stderrVars, rd, cmd, start_kills, tool>>

InitConfig ==
    /\ child = "none" /\ exitStatus = "none" /\ blocked = NotBlocked
    /\ budget = 0
    /\ stdoutPipe = << >> /\ stderrPipe = << >>
    /\ stdoutOpen = FALSE /\ stderrOpen = FALSE /\ killRequested = FALSE
    /\ emitted = << >>
    /\ pc = "init" /\ outcome = "none" /\ result = NewResult
    /\ parse_error_seen = FALSE /\ all_messages_size = 0
    /\ status = "none" /\ stderr_joined = << >>
    /\ agents_warning = << >>
    /\ timeout_secs = DEFAULT_TIMEOUT_SECS
    /\ stdoutExit = "none" /\ failure_event_seen = FALSE /\ truncated_line_seen = FALSE
    /\ epc = "none" /\ stderr_output = << >> /\ etruncated = FALSE
    /\ stderrExit = "none"
    /\ rd = ReaderIdle
    /\ cmd = NoCommand
    /\ start_kills = 0
    /\ \E file \in OptionalTimeouts : cfg = NewConfig(file)
    /\ tool = NoTool

NextConfig ==
    \/ ConfigFileChanges
    \/ DefaultTimeoutCalled
    \/ RunAppliesDeadline
    \/ RunEnds

ConfigSpec == InitConfig /\ [][NextConfig]_vars


\* ------------------------------------------------- the codex tool, on its own
\* the tool validates its parameters; it answers invalid_params or goes on
\* to codex::run with the Options it built (server.rs:130-210)
ToolValidates ==
    /\ tool.pc = "called"
    /\ IF ValidateCall(tool.call) = "ok"
       THEN /\ tool' = [tool EXCEPT !.pc = "run"]
            /\ \E extra \in SeqsOver(ExtraFlags, 1) :
                  cmd' = NewCommand(ToolOptions(tool.call, extra))
       ELSE /\ tool' = [tool EXCEPT !.pc = "returned", !.response = "invalid_params"]
            /\ UNCHANGED cmd
    /\ UNCHANGED <<childVars, parentVars, stderrVars, rd, start_kills, cfg>>

\* run_internal builds the command for the tool's Options
ToolBuildsCommand == tool.pc = "run" /\ BuildCommand

\* the child is launched with the command built, or the launch fails
ToolSpawns == tool.pc = "run" /\ cmd.pc = "built" /\ Spawn
ToolSpawnFails ==
    /\ tool.pc = "run" /\ cmd.pc = "built" /\ pc = "init"
    /\ tool' = [tool EXCEPT !.pc = "returned", !.response = "internal_error"]
    /\ pc' = "returned" /\ outcome' = "err"
    /\ UNCHANGED <<childVars, result, parse_error_seen, all_messages_size, status,
                   stderr_joined, agents_warning, timeout_secs, stdoutExit,
                   failure_event_seen, truncated_line_seen, stderrVars, rd, cmd,
                   start_kills, cfg>>

InitTool ==
    /\ child = "none" /\ exitStatus = "none" /\ blocked = NotBlocked
    /\ budget = 0
    /\ stdoutPipe = << >> /\ stderrPipe = << >>
    /\ stdoutOpen = FALSE /\ stderrOpen = FALSE /\ killRequested = FALSE
    /\ emitted = << >>
    /\ pc = "init" /\ outcome = "none" /\ result = NewResult
    /\ parse_error_seen = FALSE /\ all_messages_size = 0
    /\ status = "none" /\ stderr_joined = << >>
    /\ agents_warning = << >>
    /\ timeout_secs = DEFAULT_TIMEOUT_SECS
    /\ stdoutExit = "none" /\ failure_event_seen = FALSE /\ truncated_line_seen = FALSE
    /\ epc = "none" /\ stderr_output = << >> /\ etruncated = FALSE
    /\ stderrExit = "none"
    /\ rd = ReaderIdle
    /\ cmd = NoCommand
    /\ start_kills = 0
    /\ cfg = NoConfig
    /\ \E call \in ToolCalls : tool = [pc |-> "called", call |-> call, response |-> "none"]

NextTool ==
    \/ ToolValidates
    \/ ToolBuildsCommand
    \/ ToolSpawns
    \/ ToolSpawnFails

ToolSpec == InitTool /\ [][NextTool]_vars


\* ====================================================================== claims
IsPrefix(a, b) == Len(a) <= Len(b) /\ SubSeq(b, 1, Len(a)) = a

\* run_internal holds a CodexResult
InFlight == pc \in {"stdout_loop", "wait", "join", "merge", "validate"}

\* the stream has signalled end-of-stream to its reader
StdoutAtEof == stdoutPipe = << >> /\ ~stdoutOpen
StderrAtEof == stderrPipe = << >> /\ ~stderrOpen

\* new is old, or old followed by a newline and an addition
ErrorExtended(old, new) == new = old \/ IsPrefix(old \o <<"\n">>, new)

\* C1: every execution terminates, whatever the child does (never exiting,
\* never closing its pipes, writing without end, malformed output): run
\* eventually returns, and when it returns because the deadline elapsed the
\* result carries the timed-out error.
C1_RunTerminates ==
    /\ <>(pc = "returned")
    /\ [](outcome = "timeout" => (pc = "returned" /\ result.error = TimedOutMsg(timeout_secs)))

\* run returned on the deadline while the child was alive, had closed neither
\* pipe and was blocked in a write
C1_Witness ==
    /\ outcome = "timeout" /\ child = "running"
    /\ stdoutOpen /\ stderrOpen /\ blocked # NotBlocked

\* C2: with bounded pipes, for any child that writes a finite amount to both
\* streams in any interleaving and then exits, the execution reaches the end
\* of run_internal without the deadline.
C2_NoPipeDeadlock == <>(pc = "returned")

\* C3: once the drain-only latch is set, the stdout loop leaves only at
\* end-of-stream, and no line it reads adds to events or changes sessionId or
\* agentText.
C3_DrainOnError ==
    [][(pc = "stdout_loop" /\ parse_error_seen /\ outcome' # "timeout")
         => /\ result'.all_messages = result.all_messages
            /\ result'.session_id = result.session_id
            /\ result'.agent_messages = result.agent_messages
            /\ (pc' # "stdout_loop" => StdoutAtEof)]_vars

\* C4: unless the deadline cuts the execution short, the stdout loop has
\* ended only if stdout is at end-of-stream (so the exit wait starts after
\* it), and the stderr loop has ended only if stderr is at end-of-stream.
C4_BothLoopsRunToEof ==
    /\ pc \in {"wait", "join", "merge", "validate"} => StdoutAtEof
    /\ outcome = "ok" => StdoutAtEof
    /\ epc = "done" => StderrAtEof

\* C5: once error is non-empty, every later value of error in the same
\* execution is the earlier value, possibly followed by a newline and an
\* addition.
C5_ErrorOnlyConcatenated ==
    [][(InFlight /\ outcome' # "timeout" /\ result.error # << >>)
         => ErrorExtended(result.error, result'.error)]_vars

\* C6: success is true when the result is created at launch, and once false
\* it is never true again in the same execution.
C6_SuccessMonotone ==
    [][/\ (pc = "init" /\ pc' = "stdout_loop") => result'.success
       /\ (pc # "init" /\ ~result.success) => ~result'.success]_vars

\* a failed result came back although the run had a session id: success was
\* false before validation and stayed false
C6_Witness ==
    /\ outcome = "ok" /\ ~result.success
    /\ result.session_id # "" /\ status = "zero" /\ failure_event_seen

\* C7: in every result run returns, success is false if error is non-empty,
\* if a failure/error event was interpreted, if the exit status was non-zero,
\* or if a stdout line was truncated or failed to parse.
C7_FailureImpliesNotSuccess ==
    (pc = "returned" /\ outcome \in {"ok", "timeout"})
      => /\ result.error # << >> => ~result.success
         /\ failure_event_seen => ~result.success
         /\ status = "nonzero" => ~result.success
         /\ (parse_error_seen \/ stdoutExit = "err") => ~result.success

\* a result returned after a failure event without message, exit 0 and a
\* session id: nothing but the event makes it a failure
C7_Witness ==
    /\ outcome = "ok" /\ failure_event_seen /\ status = "zero"
    /\ ~parse_error_seen /\ result.session_id # "" /\ result.error = << >>

\* ----------------------------------------------- claims on the line reader
\* index of the terminator that ends the line starting after position k,
\* or the length of the stream if the line has none
RECURSIVE LineEnd(_, _)
LineEnd(data, k) ==
    IF k >= Len(data) THEN Len(data)
    ELSE IF data[k + 1] = "\n" THEN k + 1
    ELSE LineEnd(data, k + 1)

\* the line the returning call was given ends with a terminator
LineTerminated(r) ==
    LineEnd(r.data, r.start) > r.start /\ r.data[LineEnd(r.data, r.start)] = "\n"

\* number of bytes of that line, the terminator apart
ContentLen(r) == LineEnd(r.data, r.start) - r.start - 1

RECURSIVE Flatten(_)
Flatten(segs) == IF segs = << >> THEN << >> ELSE Head(segs) \o Flatten(Tail(segs))

\* C8: a line of exactly max_len bytes followed by a terminator is reported
\* not truncated, and a line of max_len + 1 bytes followed by a terminator is
\* reported truncated.
C8_LineLengthBoundary ==
    (rd.pc = "ret" /\ LineTerminated(rd))
      => /\ ContentLen(rd) = rd.max_len => ~rd.truncated
         /\ ContentLen(rd) = rd.max_len + 1 => rd.truncated

\* C9: each call consumes exactly the bytes up to and including the next
\* terminator (or up to end-of-stream), truncated or not, and the segments
\* consumed by successive calls concatenate to the stream read so far, which
\* is the whole stream once end-of-stream is returned.
C9_PositionIntegrity ==
    /\ rd.pc = "ret" => rd.pos = LineEnd(rd.data, rd.start)
    /\ rd.pc \in {"idle", "done"} => Flatten(rd.segments) = SubSeq(rd.data, 1, rd.pos)
    /\ rd.pc = "done" => rd.pos = Len(rd.data)

\* a truncated line that is not the first and not the last has been consumed
C9_Witness ==
    /\ rd.pc = "ret" /\ rd.truncated
    /\ rd.start > 0 /\ rd.pos < Len(rd.data)
    /\ ContentLen(rd) > rd.max_len

\* C10: called with an empty buffer, the reader never holds more than max_len
\* bytes in the line buffer, and bytes_read never exceeds max_len.
C10_ReaderMemoryBound ==
    /\ Len(rd.buf) <= rd.max_len
    /\ rd.total_read <= rd.max_len

\* a call returns for a line two bytes longer than max_len with a full buffer
C10_Witness ==
    /\ rd.pc = "ret" /\ rd.truncated
    /\ ContentLen(rd) >= rd.max_len + 1
    /\ Len(rd.buf) = rd.max_len

\* ------------------------------------------------ claims on the event loop
\* number of places of seq that hold tok
Occurrences(seq, tok) == Cardinality({i \in 1 .. Len(seq) : seq[i] = tok})

EndsWith(seq, suffix) ==
    /\ Len(suffix) <= Len(seq)
    /\ SubSeq(seq, Len(seq) - Len(suffix) + 1, Len(seq)) = suffix

\* C11: after any sequence of agent_message events, the length of agentText
\* is at most the cap plus the length of the truncation marker.
C11_AgentTextBound ==
    Len(result.agent_messages) <= MAX_AGENT_MESSAGES_SIZE + Len(AgentMarker)

\* C12: the truncation marker is in agentText at most once; whenever
\* agentTextTruncated is true agentText ends with the marker; once
\* agentTextTruncated is true no later step changes agentText or clears the
\* flag.
C12_TruncationSticky ==
    /\ [](Occurrences(result.agent_messages, AgentMarker[2]) <= 1)
    /\ [](result.agent_messages_truncated
            => EndsWith(result.agent_messages, AgentMarker))
    /\ [][result.agent_messages_truncated
            => /\ result'.agent_messages = result.agent_messages
               /\ result'.agent_messages_truncated]_vars

\* the first agent message was larger than the cap, a later one that would
\* have fitted was read, and the returned text is the marker alone
C12_Witness ==
    /\ outcome = "ok" /\ Len(emitted) >= 2
    /\ emitted[1] = "msgbig" /\ emitted[2] = "msg"
    /\ result.agent_messages_truncated
    /\ result.agent_messages = AgentMarker

\* sum of the serialized sizes of the events of a log
RECURSIVE SumSizes(_)
SumSizes(log) == IF log = << >> THEN 0 ELSE MessageSize(Head(log)) + SumSizes(Tail(log))

\* the step is the stdout loop reading the line at the head of the pipe
ReadsHead == pc = "stdout_loop" /\ stdoutPipe # << >> /\ stdoutPipe' = Tail(stdoutPipe)

\* C13: once eventsTruncated is set, no step appends to events.
C13_NoAppendAfterTruncated ==
    [][result.all_messages_truncated
         => result'.all_messages = result.all_messages]_vars

\* C14: the serialized sizes of the events kept never add up to more than
\* the budget; a step changes events only by appending one object that fits
\* in the remaining budget; an object that is interpreted and does not fit
\* sets eventsTruncated and is not kept; eventsTruncated is never cleared.
C14_EventBudget ==
    /\ [](SumSizes(result.all_messages) <= MAX_ALL_MESSAGES_SIZE)
    /\ [][/\ result.all_messages_truncated => result'.all_messages_truncated
          /\ result'.all_messages # result.all_messages
               => \E l \in EventLines :
                     /\ result'.all_messages = Append(result.all_messages, l)
                     /\ SumSizes(result.all_messages) + MessageSize(l)
                            <= MAX_ALL_MESSAGES_SIZE
          /\ (/\ ReadsHead
              /\ Interpreted(parse_error_seen, Head(stdoutPipe))
              /\ IsObject(Head(stdoutPipe))
              /\ SumSizes(result.all_messages) + MessageSize(Head(stdoutPipe))
                     > MAX_ALL_MESSAGES_SIZE)
               => /\ result'.all_messages_truncated
                  /\ result'.all_messages = result.all_messages]_vars

\* the returned log holds two events that fill the budget exactly, and a
\* third one was left out
C14_Witness ==
    /\ outcome = "ok" /\ result.all_messages_truncated
    /\ Len(result.all_messages) = 2
    /\ SumSizes(result.all_messages) = MAX_ALL_MESSAGES_SIZE

\* a is b with some elements left out, the order kept
RECURSIVE IsSubseq(_, _)
IsSubseq(a, b) ==
    \/ a = << >>
    \/ /\ b # << >>
       /\ IF Head(a) = Head(b) THEN IsSubseq(Tail(a), Tail(b))
          ELSE IsSubseq(a, Tail(b))

NotBlank(l) == ~IsBlank(l)

\* the lines, blank ones apart, written and not yet read
UnreadLines == SelectSeq(stdoutPipe, NotBlank)

\* the lines the stdout loop has read, in the order the child wrote them
ReadLines == SubSeq(emitted, 1, Len(emitted) - Len(UnreadLines))

\* the lines of a sequence before the first truncated or unparseable one
RECURSIVE BeforeFirstError(_)
BeforeFirstError(lines) ==
    IF lines = << >> \/ IsTruncated(Head(lines)) \/ ~ParsesAsJson(Head(lines))
    THEN << >>
    ELSE <<Head(lines)>> \o BeforeFirstError(Tail(lines))

\* the events the loop has interpreted, in the order the child wrote them
EventsApplied == BeforeFirstError(ReadLines)

\* the thread_id of the last event of a sequence that has one
RECURSIVE LastThreadId(_)
LastThreadId(events) ==
    IF events = << >> THEN ""
    ELSE IF ThreadId(events[Len(events)]) # "" THEN ThreadId(events[Len(events)])
    ELSE LastThreadId(SubSeq(events, 1, Len(events) - 1))

\* the texts of the first k agent messages of a sequence of events, in order,
\* with a newline between two non-empty ones
RECURSIVE JoinedTexts(_, _)
JoinedTexts(events, k) ==
    IF events = << >> \/ k = 0 THEN << >>
    ELSE IF ~HasAgentText(Head(events)) THEN JoinedTexts(Tail(events), k)
    ELSE LET rest == JoinedTexts(Tail(events), k - 1)
         IN IF AgentText(Head(events)) = << >> THEN rest
            ELSE IF rest = << >> THEN AgentText(Head(events))
            ELSE AgentText(Head(events)) \o <<"\n">> \o rest

AgentMessageCount(events) == Len(SelectSeq(events, HasAgentText))

\* C15: the lines not yet read are the last ones the child wrote; events is
\* an order-preserving subsequence of the objects the child wrote and the
\* loop interpreted; sessionId is the thread_id of the last of them that has
\* one; agentText is the texts of the first agent messages among them, in
\* the order written, all of them unless the text was truncated.
C15_EmissionOrder ==
    /\ emitted = ReadLines \o UnreadLines
    /\ IsSubseq(result.all_messages, SelectSeq(EventsApplied, IsObject))
    /\ result.session_id = LastThreadId(EventsApplied)
    /\ \E k \in 0 .. AgentMessageCount(EventsApplied) :
          /\ result.agent_messages =
                JoinedTexts(EventsApplied, k)
                  \o (IF result.agent_messages_truncated THEN AgentMarker ELSE << >>)
          /\ ~result.agent_messages_truncated => k = AgentMessageCount(EventsApplied)

\* three events written in a row, each with a thread_id or a text: the log
\* holds the first two in order, the session id is the later one, the text
\* has the two fragments in order
C15_Witness ==
    /\ outcome = "ok"
    /\ emitted = <<"sid", "msg", "msg2">>
    /\ result.all_messages = <<"sid", "msg">>
    /\ result.session_id = "s2"
    /\ result.agent_messages = <<"x", "\n", "y", "y">>

\* ------------------------------------------------ claims on finalization
\* the step is the full validation at the end of run_internal
Validates == pc = "validate" /\ pc' = "returned" /\ outcome' = "ok"

\* tok is one of the tokens of text
Contains(text, tok) == \E i \in 1 .. Len(text) : text[i] = tok

\* C16: full validation sets success to false and error to the
\* missing-SESSION_ID message exactly when sessionId is empty and no error is
\* recorded; otherwise it leaves error and success as they were; the error
\* of a returned run that read a truncated line never holds the
\* missing-SESSION_ID message.
C16_SessionCheckNeverMasks ==
    /\ [][Validates
            => IF result.session_id = "" /\ result.error = << >>
               THEN ~result'.success /\ result'.error = SessionIdMsg
               ELSE /\ result'.error = result.error
                    /\ result'.success = result.success]_vars
    /\ []((outcome = "ok" /\ truncated_line_seen)
            => /\ ~Contains(result.error, SessionIdMsg[1])
               /\ Contains(result.error, LineTooLongMsg[1]))

\* a run returned without session id after a truncated line: its error is
\* the line-too-long error followed by the exit detail
C16_Witness ==
    /\ outcome = "ok" /\ truncated_line_seen
    /\ result.session_id = ""
    /\ IsPrefix(LineTooLongMsg, result.error)

C18_TimeoutResult ==
    outcome = "timeout"
      => /\ pc = "returned"
         /\ ~result.success
         /\ result.session_id = "" /\ result.agent_messages = << >>
         /\ result.all_messages = << >>
         /\ ~result.agent_messages_truncated /\ ~result.all_messages_truncated
         /\ result.error = <<"Codex execution timed out after ",
                              ToString(timeout_secs), " seconds">>
         /\ result.warnings = agents_warning

\* the deadline a caller asked for elapsed after the run had read a truncated
\* line (and so recorded an error), with an AGENTS.md warning
C18_Witness ==
    /\ outcome = "timeout" /\ truncated_line_seen
    /\ timeout_secs = RequestedTimeout /\ agents_warning # << >>

\* C19: a run ended by the deadline has sent the kill to the child, and the
\* child then terminates; at each await point of run_internal the deadline
\* can end the run whatever the state of the child and of the two streams.
C19_TimeoutKillsWithoutBlocking ==
    /\ [](outcome = "timeout" => killRequested)
    /\ (outcome = "timeout") ~> (child = "exited")
    /\ [](pc \in {"stdout_loop", "wait", "join"} => ENABLED Timeout)

\* run has returned on the deadline, the kill is sent, the child has not yet
\* died and neither stream is at end-of-stream
C19_Witness ==
    /\ outcome = "timeout" /\ pc = "returned" /\ killRequested
    /\ child = "running" /\ ~StdoutAtEof /\ ~StderrAtEof

\* the step is the merge of exit status and stderr after a non-zero exit
MergesNonZero == pc = "merge" /\ pc' = "validate" /\ status # "zero"

\* C20: after a non-zero exit success is false and error is the error the
\* event loop recorded, or the exit-code message if it recorded none,
\* followed by "Stderr: ..." if stderr was not empty; stderr is not put in
\* warnings; validation leaves that error as it is.
C20_ExitKeepsRootCause ==
    [][/\ MergesNonZero
           => LET root == IF result.error # << >> THEN result.error ELSE ExitCodeMsg
              IN /\ ~result'.success
                 /\ result'.error =
                       IF stderr_joined # << >>
                       THEN root \o <<"\n", "Stderr: ">> \o stderr_joined
                       ELSE root
                 /\ result'.warnings = agents_warning
       /\ (Validates /\ status # "zero")
           => /\ ~result'.success
              /\ result'.error = result.error
              /\ result'.warnings \in
                    {agents_warning,
                     IF agents_warning # << >>
                     THEN agents_warning \o <<"\n">> \o NoAgentMessagesMsg
                     ELSE NoAgentMessagesMsg}]_vars

\* a run returned after an error event and a non-zero exit with output on
\* stderr: the error is the event's message followed by the stderr text
C20_Witness ==
    /\ outcome = "ok" /\ status = "nonzero" /\ ~result.success
    /\ result.error = CodexErrorMsg("boom") \o <<"\n", "Stderr: ">> \o StderrText("e1")

\* the step is the merge of exit status and stderr after a zero exit
MergesZero == pc = "merge" /\ pc' = "validate" /\ status = "zero"

\* C21: after a zero exit the merge leaves success and error as the event
\* loop left them, whatever stderr held, and puts non-empty stderr output in
\* warnings (after the AGENTS.md warning, if any); the returned error never
\* holds stderr output.
C21_StderrAloneIsNoFailure ==
    /\ [][MergesZero
            => /\ result'.success = result.success
               /\ result'.error = result.error
               /\ stderr_joined # << >>
                    => result'.warnings =
                          IF agents_warning # << >>
                          THEN agents_warning \o <<"\n">> \o stderr_joined
                          ELSE stderr_joined]_vars
    /\ []((outcome = "ok" /\ status = "zero") => ~Contains(result.error, "Stderr: "))

\* a successful run returned after a zero exit with output on stderr, which
\* is in its warnings
C21_Witness ==
    /\ outcome = "ok" /\ status = "zero" /\ result.success /\ result.error = << >>
    /\ stderr_joined = StderrText("e1")
    /\ IsPrefix(StderrText("e1"), result.warnings)

\* ------------------------------------------------ claims on whole runs
\* a valid JSON object whose type names no failure
CleanLine(l) ==
    ~IsTruncated(l) /\ ParsesAsJson(l) /\ IsObject(l) /\ ~IsFailureType(l)

\* the run returned after the loop read every line the child wrote, all of
\* them clean, one with a thread_id and one with agent text; stderr was
\* empty, the exit status zero, and there is no AGENTS.md warning
CleanRun ==
    /\ outcome = "ok" /\ stdoutExit = "eof" /\ status = "zero"
    /\ stderr_joined = << >> /\ agents_warning = << >>
    /\ \A i \in 1 .. Len(emitted) : CleanLine(emitted[i])
    /\ \E i \in 1 .. Len(emitted) : ThreadId(emitted[i]) # ""
    /\ \E i \in 1 .. Len(emitted) :
          HasAgentText(emitted[i]) /\ AgentText(emitted[i]) # << >>

\* the result of a clean run, as the emitted lines determine it
CleanResult ==
    /\ result.success /\ result.error = << >> /\ result.warnings = << >>
    /\ result.session_id = LastThreadId(emitted)
    /\ result.agent_messages = JoinedTexts(emitted, Len(emitted))

InterpretsHead == ReadsHead /\ Interpreted(parse_error_seen, Head(stdoutPipe))

\* C23: an interpreted event whose type names a failure clears success and
\* sets error to the message built from the nested error.message if there is
\* one, otherwise from the top-level message if there is one.
C23_FailureEventMessage ==
    [][(InterpretsHead /\ IsFailureType(Head(stdoutPipe)))
         => LET l == Head(stdoutPipe)
            IN /\ ~result'.success
               /\ ErrorObjMessage(l) # ""
                    => result'.error = CodexErrorMsg(ErrorObjMessage(l))
               /\ (ErrorObjMessage(l) = "" /\ TopMessage(l) # "")
                    => result'.error = CodexErrorMsg(TopMessage(l))]_vars

\* ------------------------------------------------ claims on the launch
\* C24: a run that leaves its start without a child returns an error to the
\* caller, not a result, in that same step; neither the stdout loop nor the
\* stderr task has started or ever starts.
C24_LaunchFailure ==
    /\ [][(pc = "init" /\ pc' # "init" /\ child' = "none")
            => /\ pc' = "returned" /\ outcome' = "err"
               /\ epc' = "none" /\ result' = result]_vars
    /\ []((pc = "returned" /\ child = "none")
            => /\ outcome = "err"
               /\ epc = "none" /\ stdoutExit = "none" /\ stderrExit = "none"
               /\ result = NewResult)

\* the launch failed and run has returned its error
C24_Witness ==
    /\ pc = "returned" /\ child = "none" /\ outcome = "err"
    /\ epc = "none" /\ stdoutOpen = FALSE

\* ------------------------------------------------ claims on the stderr task
\* the length of the stderr text in the task's buffer, the marker and the
\* newline before it left out
StderrTextLen ==
    IF ~etruncated THEN Len(stderr_output)
    ELSE IF Len(stderr_output) > Len(StderrMarker)
    THEN Len(stderr_output) - Len(StderrMarker) - 1
    ELSE 0

\* the buffer holds at most the cap of stderr text and the marker at most
\* once, at its end and only when truncated
StderrCapKept ==
    /\ StderrTextLen <= MAX_STDERR_SIZE
    /\ Occurrences(stderr_output, StderrMarker[1]) = (IF etruncated THEN 1 ELSE 0)
    /\ etruncated => EndsWith(stderr_output, StderrMarker)

\* C25: the stderr buffer holds at most the cap of stderr text plus one
\* marker; once truncated the buffer never changes; a stderr task that has
\* truncated ends only at end-of-stream; a run that exited zero with
\* truncated stderr returns warnings that hold the marker.
C25_StderrBufferCap ==
    /\ []StderrCapKept
    /\ [][etruncated => (etruncated' /\ stderr_output' = stderr_output)]_vars
    /\ []((etruncated /\ epc = "done") => StderrAtEof)
    /\ []((outcome = "ok" /\ status = "zero" /\ etruncated)
            => Contains(result.warnings, StderrMarker[1]))

\* ------------------------------------------------ claims on the command
\* C26: the arguments of the built command are, in this order: exec, --cd and
\* the working directory; --json; the extra flags as supplied; for each image
\* as supplied, --image and then its path; resume and the identifier exactly
\* when the request has one; the end-of-options delimiter and the prompt as
\* the last argument. The child's stdin is the null device.
C26_ArgumentVector ==
    cmd.pc = "built"
      => LET a == cmd.args
             o == cmd.opts
             n == Len(o.additional_args)
             m == Len(o.image_paths)
             r == IF o.session_id # << >> THEN 2 ELSE 0
         IN /\ Len(a) = 4 + n + 2 * m + r + 2
            /\ a[1] = "exec" /\ a[2] = "--cd" /\ a[3] = o.working_dir
            /\ a[4] = "--json"
            /\ \A i \in 1 .. n : a[4 + i] = o.additional_args[i]
            /\ \A j \in 1 .. m : /\ a[4 + n + 2 * j - 1] = "--image"
                                  /\ a[4 + n + 2 * j] = o.image_paths[j]
            /\ o.session_id # << >>
                 => /\ a[4 + n + 2 * m + 1] = "resume"
                    /\ a[4 + n + 2 * m + 2] = o.session_id[1]
            /\ a[Len(a) - 1] = "--" /\ a[Len(a)] = o.prompt
            /\ cmd.stdin = "null"

\* a command built for two extra flags, two images and a session to resume
C26_Witness ==
    /\ cmd.pc = "built"
    /\ cmd.args = <<"exec", "--cd", "wd", "--json", "--full-auto", "resume",
                    "--image", "a.png", "--image", "b.png", "resume", "s1",
                    "--", "p">>
    /\ cmd.stdin = "null"

\* ------------------------------------------------ claims on the merge
\* the step is one of the stdout loop: it reads a line or ends the loop
StdoutLoopStep == pc = "stdout_loop" /\ (ReadsHead \/ stdoutExit' # stdoutExit)

\* while the stdout loop runs, only a step of that loop changes the result,
\* and a step of the stderr task changes neither the result nor the joined
\* output
LoopsWriteApart ==
    /\ (pc = "stdout_loop" /\ outcome' # "timeout" /\ result' # result)
         => StdoutLoopStep
    /\ (stderr_output' # stderr_output \/ etruncated' # etruncated \/ epc' # epc)
         => (result' = result /\ stderr_joined' = stderr_joined)

\* the step merges the stderr buffer into the result
MergesStderr == pc = "merge" /\ pc' = "validate"

\* C27: while the drain loops run the result is written only by the stdout
\* loop, and the stderr task writes only its own buffer; when that buffer is
\* merged into the result, stdout has reached end-of-stream, the exit status
\* is known and the stderr task has been joined.
C27_MergeAfterDrain ==
    /\ [][LoopsWriteApart]_vars
    /\ [][MergesStderr
            => /\ StdoutAtEof
               /\ status # "none"
               /\ epc = "done" /\ stderr_joined = stderr_output]_vars

\* ------------------------------------------------ claims on interpretation
\* the step appends object l to events if it fits the event budget, takes
\* its non-empty thread_id as sessionId, and appends its non-empty agent
\* text, after a newline if there is text already, if the text is not
\* truncated and the fragment fits the text limit
FullyInterprets(l) ==
    /\ (IsObject(l)
          /\ SumSizes(result.all_messages) + MessageSize(l) <= MAX_ALL_MESSAGES_SIZE)
         => result'.all_messages = Append(result.all_messages, l)
    /\ ThreadId(l) # "" => result'.session_id = ThreadId(l)
    /\ (/\ HasAgentText(l) /\ AgentText(l) # << >>
        /\ ~result.agent_messages_truncated
        /\ Len(result.agent_messages) + Len(AgentText(l)) <= MAX_AGENT_MESSAGES_SIZE)
         => result'.agent_messages =
               (IF result.agent_messages # << >>
                THEN result.agent_messages \o <<"\n">> ELSE << >>) \o AgentText(l)

\* C28: a step that interprets a failure event, or any event after a failure
\* event, still adds the event to events and still takes its thread_id and
\* its agent text.
C28_FailureDoesNotStopInterpretation ==
    [][(InterpretsHead /\ (failure_event_seen \/ IsFailureType(Head(stdoutPipe))))
         => FullyInterprets(Head(stdoutPipe))]_vars

\* a failure event with thread_id and text, then a thread_id, then a text:
\* all of them reached the result
C28_Witness ==
    /\ outcome = "ok" /\ ~result.success
    /\ emitted = <<"errfull", "sid", "msg">>
    /\ result.all_messages = <<"errfull", "sid">>
    /\ result.session_id = "s1"
    /\ result.agent_messages = <<"w", "\n", "x">>
    /\ IsPrefix(CodexErrorMsg("bang"), result.error)

\* C29: sessionId is at every point the thread_id of the last interpreted
\* event that had a non-empty one, empty if there was none; a step that
\* interprets an event with a non-empty thread_id sets sessionId to it, and
\* no other step changes sessionId.
C29_SessionIdRule ==
    /\ [](result.session_id = LastThreadId(EventsApplied))
    /\ [][IF InterpretsHead /\ ThreadId(Head(stdoutPipe)) # ""
          THEN result'.session_id = ThreadId(Head(stdoutPipe))
          ELSE result'.session_id = result.session_id]_vars

\* a thread_id, a different one, then an event whose thread_id is empty:
\* the second one is returned
C29_Witness ==
    /\ outcome = "ok"
    /\ emitted = <<"sid", "msg2", "empty">>
    /\ EventsApplied = emitted
    /\ result.session_id = "s2"

\* C30: while the text is not truncated, agentText is the texts of the
\* interpreted agent_message events in the order written, one newline
\* between two non-empty fragments and none for an empty fragment or before
\* the first; a step that interprets an event of another item type, or with
\* an empty text, and does not truncate leaves agentText as it was.
C30_AgentTextAssembly ==
    /\ [](~result.agent_messages_truncated
            => result.agent_messages = JoinedTexts(EventsApplied, Len(EventsApplied)))
    /\ [][(/\ InterpretsHead
           /\ ~result'.agent_messages_truncated
           /\ \/ ItemType(Head(stdoutPipe)) # "agent_message"
              \/ AgentText(Head(stdoutPipe)) = << >>)
            => result'.agent_messages = result.agent_messages]_vars

\* a fragment, an empty fragment, a fragment: one newline in the text
C30_Witness ==
    /\ outcome = "ok" /\ ~result.agent_messages_truncated
    /\ emitted = <<"msg", "empty", "msg">>
    /\ EventsApplied = emitted
    /\ result.agent_messages = <<"x", "\n", "x">>

\* ------------------------------------------------ claims on the latch
\* the step reads a line that the loop tries to parse and that is not JSON
ParsesBadHead ==
    /\ ReadsHead /\ ~parse_error_seen
    /\ ~IsTruncated(Head(stdoutPipe)) /\ ~IsBlank(Head(stdoutPipe))
    /\ ~ParsesAsJson(Head(stdoutPipe))

\* the step reads an unparseable line when the latch is already set
SkipsBadHead ==
    /\ ReadsHead /\ parse_error_seen
    /\ ~IsTruncated(Head(stdoutPipe)) /\ ~ParsesAsJson(Head(stdoutPipe))

\* the number of parse-error messages in text that name a line
LineParseErrors(text) ==
    Cardinality({i \in 1 .. Len(text) - 1 :
                    text[i] = ParseErrorMsg("")[1] /\ text[i + 1] # ""})

\* C31: a line that fails JSON parsing clears success, appends its
\* parse-error message to error (after the existing error and a newline, if
\* there is one) and sets the latch; an unparseable line read with the latch
\* set changes nothing in the result; error never holds more than one
\* parse-error message for a line.
C31_ParseFailure ==
    /\ [][ParsesBadHead
            => /\ ~result'.success
               /\ result'.error =
                     (IF result.error # << >> THEN result.error \o <<"\n">> ELSE << >>)
                       \o ParseErrorMsg(Head(stdoutPipe))
               /\ parse_error_seen']_vars
    /\ [][SkipsBadHead => (result' = result /\ parse_error_seen')]_vars
    /\ [](LineParseErrors(result.error) <= 1)

\* a failure event and then an unparseable line: the returned error starts
\* with the event's message, a newline and the parse-error message
C31_Witness ==
    /\ outcome = "ok" /\ ~result.success
    /\ IsPrefix(CodexErrorMsg("boom") \o <<"\n">> \o ParseErrorMsg("bad"), result.error)
    /\ LineParseErrors(result.error) = 1

\* the line is one the loop cannot recover from: truncated, or not JSON
Unrecoverable(l) == IsTruncated(l) \/ (~IsBlank(l) /\ ~ParsesAsJson(l))

\* C32: the stdout loop calls start_kill in exactly the steps in which the
\* latch goes from unset to set, which are the steps that read the first
\* truncated or unparseable line; it calls it at most once in an execution;
\* the step that calls it requests the kill and leaves the loop reading.
C32_KillOnFirstUnrecoverableLine ==
    /\ [][/\ (start_kills' # start_kills) = (~parse_error_seen /\ parse_error_seen')
          /\ start_kills' # start_kills
               => /\ start_kills' = start_kills + 1
                  /\ ReadsHead /\ Unrecoverable(Head(stdoutPipe))
                  /\ killRequested' /\ pc' = "stdout_loop"
          /\ (ReadsHead /\ ~parse_error_seen /\ Unrecoverable(Head(stdoutPipe)))
               => start_kills' = start_kills + 1
          /\ (ReadsHead /\ parse_error_seen)
               => (start_kills' = start_kills /\ pc' = "stdout_loop")]_vars
    /\ [](start_kills <= 1)

\* an unparseable line, a truncated line and another unparseable line were
\* read, and the kill was requested once
C32_Witness ==
    /\ outcome = "ok" /\ stdoutExit = "eof"
    /\ emitted = <<"bad", "long", "bad">>
    /\ start_kills = 1 /\ killRequested

\* ------------------------------------------------ claims on the deadline
\* C33: the deadline run applies is the request's timeout when the request
\* has one and the value of default_timeout_secs otherwise, and it is never
\* above MAX_TIMEOUT_SECS.
C33_DeadlineDerivation ==
    cfg.pc = "applied"
      => /\ timeout_secs = (IF cfg.requested # << >> THEN cfg.requested[1]
                            ELSE cfg.returned[1])
         /\ timeout_secs <= MAX_TIMEOUT_SECS

\* the value the configuration gives: t when 1 <= t <= 3600, 3600 when
\* t > 3600, 600 when t is missing or 0
ConfiguredDefault(configured) ==
    IF configured = << >> \/ configured[1] = 0 THEN 600
    ELSE IF configured[1] > 3600 THEN 3600
    ELSE configured[1]

\* C34: every call of default_timeout_secs returns the value the loaded
\* configuration gives, which is within 1..3600, and the same value as the
\* first call.
C34_ConfiguredDefaultTimeout ==
    (cfg.pc # "none" /\ cfg.returned # << >>)
      => /\ cfg.returned[1] = ConfiguredDefault(cfg.loaded[1])
         /\ cfg.returned[1] \in 1 .. 3600
         /\ cfg.returned = cfg.first

\* a configured timeout above the ceiling was loaded, the file was then
\* rewritten, and a later call still returned the ceiling
C34_Witness ==
    /\ cfg.pc # "none"
    /\ cfg.loaded = <<(<<MAX_TIMEOUT_SECS + 1>>)>>
    /\ cfg.file_then = <<1>>
    /\ cfg.returned = <<MAX_TIMEOUT_SECS>>

\* ------------------------------------------------ claims on warnings
\* the non-empty texts of a sequence, in order, a newline between two of them
RECURSIVE JoinLines(_)
JoinLines(texts) ==
    IF texts = << >> THEN << >>
    ELSE LET rest == JoinLines(Tail(texts))
         IN IF Head(texts) = << >> THEN rest
            ELSE IF rest = << >> THEN Head(texts)
            ELSE Head(texts) \o <<"\n">> \o rest

\* C35: the warnings of a timeout result are the AGENTS.md warning; the
\* warnings of a result of the normal path are the AGENTS.md warning if there
\* is one, then the stderr output if the exit status was zero and stderr was
\* not empty, then the advisory if agentText is empty, newline-joined.
C35_AgentsWarningKept ==
    /\ outcome = "timeout" => result.warnings = agents_warning
    /\ outcome = "ok"
         => result.warnings =
               JoinLines(<<agents_warning,
                           IF status = "zero" THEN stderr_joined ELSE << >>,
                           IF result.agent_messages = << >>
                           THEN NoAgentMessagesMsg ELSE << >> >>)

\* the normal path returned the three warnings, the AGENTS.md one first
C35_Witness ==
    /\ outcome = "ok"
    /\ result.warnings =
          AgentsWarningMsg \o <<"\n">> \o StderrText("e1") \o <<"\n">> \o NoAgentMessagesMsg

\* ------------------------------------------------ claims on the codex tool
\* the call has a non-empty prompt, a current directory that resolves to a
\* directory, and only images that resolve to regular files
ValidToolCall ==
    /\ tool.call.prompt # ""
    /\ PathKind(tool.call.current_dir) = "dir"
    /\ \A i \in 1 .. Len(tool.call.images) : PathKind(tool.call.images[i]) = "file"

\* an execution was started: Options were built or a child was launched
ExecutionStarted == cmd.pc # "none" \/ pc # "init" \/ child # "none"

\* C36: the codex tool starts an execution, and launches a child, only for
\* a valid call; for an invalid call it returns invalid_params and starts
\* nothing.
C36_ValidationPrecedesLaunch ==
    tool.pc # "none"
      => /\ ExecutionStarted => ValidToolCall
         /\ (tool.pc # "called" /\ ~ValidToolCall)
              => /\ tool.pc = "returned" /\ tool.response = "invalid_params"
                 /\ ~ExecutionStarted

\* a valid call with two images launched the child
C36_Witness ==
    /\ tool.pc = "run" /\ child = "running"
    /\ tool.call.images = <<"a.png", "a.png">>
    /\ cmd.pc = "built"

\* ------------------------------------------------ claims on the reader's result
\* C37: a returning call reports bytes_read = 0 and truncated = false exactly
\* when the stream was at end-of-stream when the call started; a call that
\* consumed a byte reports bytes_read >= 1, and truncated only with
\* bytes_read >= 1.
C37_EndOfStreamSignal ==
    rd.pc = "ret"
      => /\ (rd.total_read = 0 /\ ~rd.truncated) <=> (rd.start = Len(rd.data))
         /\ rd.pos > rd.start => rd.total_read >= 1
         /\ rd.truncated => rd.total_read >= 1

\* a call that was given a blank line, after an earlier line, returns one
\* byte read
C37_Witness ==
    /\ rd.pc = "ret" /\ rd.start > 0
    /\ Consumed(rd) = <<"\n">>
    /\ rd.total_read = 1 /\ ~rd.truncated

\* ------------------------------------------------ claims on returned results
\* C38: a returned result, of the normal path or of the timeout path, that
\* has success = false has a non-empty error.
C38_FailureHasError ==
    (outcome \in {"ok", "timeout"} /\ ~result.success) => result.error # << >>

\* ------------------------------------------------ claims on the interleaving
\* the stdout lines of a history, in the order written
StdoutHistory(h) == SelectSeq(h, LAMBDA l : l \in StdoutLines)

\* the stderr lines of a history, in the order written
StderrHistory(h) == SelectSeq(h, LAMBDA l : l \in StderrLines)

\* the loop state after the given stdout lines, read one after the other
RECURSIVE AfterStdout(_, _)
AfterStdout(st, lines) ==
    IF lines = << >> THEN st
    ELSE AfterStdout(ProcessStdoutLine(st, Head(lines)), Tail(lines))

\* the stderr buffer after the given stderr lines, read one after the other
RECURSIVE AfterStderr(_, _)
AfterStderr(eb, lines) ==
    IF lines = << >> THEN eb
    ELSE AfterStderr(AppendStderrLine(eb, Head(lines)), Tail(lines))

\* the result of an execution that reads the stdout lines, then the stderr
\* lines, then the exit status, with no interleaving at all
SequentialResult(h, st, warning) ==
    LET loop == AfterStdout([result |-> NewResult, size |-> 0, seen |-> FALSE,
                             kill |-> FALSE], StdoutHistory(h))
        err == AfterStderr([out |-> << >>, truncated |-> FALSE], StderrHistory(h))
    IN enforce_required_fields(
          PrependAgentsWarning(MergeExitStatus(loop.result, st, err.out), warning),
          "Full")

\* C39: the result of an execution that completes before its deadline is a
\* function of the stdout lines, the stderr lines, the exit status and the
\* AGENTS.md warning: it is the result of reading the two streams one after
\* the other, whatever the interleaving of the two loops and the child's exit.
C39_SchedulingIndependence ==
    outcome = "ok" => result = SequentialResult(emitted, status, agents_warning)

\* a completed execution in which the child wrote to stderr before stdout,
\* while the result holds the stdout line and the stderr text
C39_Witness ==
    /\ outcome = "ok"
    /\ Len(emitted) = 2 /\ emitted[1] \in StderrLines /\ emitted[2] \in StdoutLines
    /\ result.all_messages # << >>
    /\ stderr_joined # << >>

\* ------------------------------------------- claims on the abandoned stderr task
\* the step is the deadline ending the run
DeadlineFires == outcome # "timeout" /\ outcome' = "timeout"

\* C40: the step on which the deadline fires leaves the stderr task where it
\* is and joins nothing of it; a task that is still draining when the run has
\* timed out eventually terminates.
C40_DrainTaskEnds ==
    /\ [][DeadlineFires => (epc' = epc /\ stderr_output' = stderr_output
                               /\ stderr_joined' = << >>)]_vars
    /\ (outcome = "timeout" /\ epc = "loop") ~> (epc = "done")

\* the run has timed out and nothing of stderr was joined; the kill is sent
\* to a child that still runs with stderr open, and the abandoned stderr task
\* is in its loop with a line left to drain
C40_Witness ==
    /\ outcome = "timeout" /\ killRequested /\ start_kills = 0
    /\ child = "running" /\ stderrOpen
    /\ epc = "loop" /\ stderrPipe # << >>
    /\ stderr_joined = << >>

====
